---- MODULE Spec2Model ----
(***************************************************************************)
(* Model of the local activity cache of the private-note viewer:           *)
(*   - ActivityDatabase        (IndexedDB store "activities", keyPath id)  *)
(*   - SmartActivityCache      (memory cache + database + remote API)      *)
(*   - StravaAPI               (remote calls and their failures)           *)
(*   - WeeklyMileageCalculator (backward pass over complete weeks)         *)
(*   - WeeklyMileageDatabase   (IndexedDB store "weekly_mileage")          *)
(* The awaits on remote calls and on the activity store are separate steps *)
(* of the model; the code between two awaits is atomic, as in JavaScript.   *)
(***************************************************************************)
EXTENDS Integers, Sequences, FiniteSets, TLC

(***************************************************************************)
(* Bounds                                                                  *)
(***************************************************************************)
\* activities known to the remote system: ids 1..MaxId
MaxId == 3
\* cap on SmartActivityCache.apiCallCount within one page session
MaxApiCalls == 3
\* scaled-down value of maxWeeksBack (52 in the source)
MaxWeeksBack == 2
\* the last day (counted from a Monday numbered 0) a pass may start on
MaxToday == 20

\* calculateWeeklyMileage calls made while a pass is running
MaxBusyCalls == 1

\* operations issued on one ActivityDatabase instance
MaxOps == 3

\* cache hits counted by one SmartActivityCache between two clearAll calls
MaxCacheHits == 1

\* clearAll calls of one session
MaxClears == 1

\* ids handed to one call where calls are interleaved with clearAll and
\* cleanup or given to two sessions
MaxBatch == 2

\* calls given to the two sessions that are compared
MaxTwinCalls == 2

\* the dates given to getWeekId: day 0 is Monday 2018-01-01
MaxDate == 370

Ids == 1..MaxId

(***************************************************************************)
(* Activity identifiers.  The remote API delivers numeric ids              *)
(* (StravaActivity.id: number); the code converts with String(id) in       *)
(* several places.  An IndexedDB key of type number never equals a key of  *)
(* type string, so the type is part of the value.                          *)
(***************************************************************************)
NumId(n) == <<"num", n>>

\* variant: the conversion keeps the type of the id, so a lookup by a
\* numeric id finds the record stored under it
String_KeepsType(id) == id

\* JavaScript String(id)
String(id) == <<"str", id[2]>>

(***************************************************************************)
(* The remote system's data (fixed: no remote change during a behaviour).  *)
(***************************************************************************)
\* private_note of activity n at the remote: populated, empty or absent
RemoteNote(n) == IF n % 3 = 1 THEN "ouch" ELSE IF n % 3 = 2 THEN "" ELSE "absent"

\* type / sport_type of activity n
RemoteType(n) == IF n % 3 = 0 THEN "Ride" ELSE "Run"

\* sport_type: the finer classification of the same activity
RemoteSportType(n) == IF n % 3 = 0 THEN "Ride" ELSE IF n % 3 = 1 THEN "Run" ELSE "TrailRun"

\* the week the activity started in, counted backward from the current
\* week (0 = current week, 1 = last complete week, ...)
RemoteWeek(n) == IF n <= 2 THEN 1 ELSE 2

\* day of that week (1 = Monday .. 7 = Sunday)
RemoteDay(n) == ((n - 1) % 7) + 1

\* distance in meters
RemoteDistance(n) == n * 1000

\* moving_time in seconds; 0 where the remote delivers none
RemoteMovingTime(n) == IF n % 2 = 0 THEN 0 ELSE n * 60

\* elapsed_time in seconds
RemoteElapsedTime(n) == n * 100

\* total_elevation_gain in meters
RemoteElevation(n) == n * 10

\* Summary record, as returned by the list endpoint (no private note)
SummaryActivity(n) ==
  [id |-> NumId(n), fidelity |-> "summary", private_note |-> "absent",
   type |-> RemoteType(n), sport_type |-> RemoteSportType(n),
   week |-> RemoteWeek(n), day |-> RemoteDay(n),
   distance |-> RemoteDistance(n), moving_time |-> RemoteMovingTime(n),
   elapsed_time |-> RemoteElapsedTime(n), total_elevation_gain |-> RemoteElevation(n),
   has_private_note |-> "absent", cached_at |-> "absent"]

\* Detail record, as returned by the single-item endpoint
DetailActivity(n) ==
  [SummaryActivity(n) EXCEPT !.fidelity = "detail", !.private_note = RemoteNote(n)]

\* outcome of one remote request (makeAuthenticatedRequest)
RemoteOutcomes == {"ok", "rate", "unauth", "error"}

\* error.message.includes('429') || error.message.includes('rate limit')
IsRateLimitError(outcome) == outcome = "rate"

(***************************************************************************)
(* JavaScript helpers                                                      *)
(***************************************************************************)
\* !!value for a private_note
Truthy(note) == note \notin {"absent", ""}

\* Map.set(key, value)
MapSet(m, k, v) == [x \in (DOMAIN m) \cup {k} |-> IF x = k THEN v ELSE m[x]]

EmptyMap == [x \in {} |-> 0]

\* Array.prototype.filter
RECURSIVE SeqFilter(_, _)
SeqFilter(s, keep) ==
  IF s = <<>> THEN <<>>
  ELSE IF Head(s) \in keep THEN <<Head(s)>> \o SeqFilter(Tail(s), keep)
       ELSE SeqFilter(Tail(s), keep)

SeqRange(s) == {s[i] : i \in DOMAIN s}

IsDistinct(s) == \A i, j \in DOMAIN s : i # j => s[i] # s[j]

\* id lists as a list response delivers them: no id twice
IdLists == {s \in UNION {[1..n -> Ids] : n \in 0..MaxId} : IsDistinct(s)}

\* Array.prototype.map(n => SummaryActivity(n)) and map(a => a.id)
SummariesOf(ids) == [i \in DOMAIN ids |-> SummaryActivity(ids[i])]

ActivityIdsOf(activities) == [i \in DOMAIN activities |-> activities[i].id]

(***************************************************************************)
(* ActivityDatabase                                                        *)
(***************************************************************************)
\* the enhancedActivity object written by storeActivity
EnhancedActivity(activity) ==
  [activity EXCEPT !.has_private_note = IF Truthy(activity.private_note) THEN "true" ELSE "false",
                   !.cached_at = "set"]

\* store.put(enhancedActivity) on a store with keyPath 'id'
DbStoreActivity(store, activity) == MapSet(store, activity.id, EnhancedActivity(activity))

\* store.get(String(activityId)): the record or "null"
DbHasActivity(store, activityId) == String(activityId) \in DOMAIN store

DbGetActivity(store, activityId) == store[String(activityId)]

\* getActivities(activityIds): the found records, in request order
RECURSIVE DbGetActivities(_, _)
DbGetActivities(store, activityIds) ==
  IF activityIds = <<>> THEN <<>>
  ELSE IF DbHasActivity(store, Head(activityIds))
       THEN <<DbGetActivity(store, Head(activityIds))>> \o DbGetActivities(store, Tail(activityIds))
       ELSE DbGetActivities(store, Tail(activityIds))

\* getMissingActivityIds(activityIds)
DbGetMissingActivityIds(store, activityIds) ==
  LET cachedIds == {String(a.id) : a \in SeqRange(DbGetActivities(store, activityIds))}
  IN  SeqFilter(activityIds, {id \in SeqRange(activityIds) : String(id) \notin cachedIds})

\* getAllActivities()
DbGetAllActivities(store) == {store[k] : k \in DOMAIN store}

(***************************************************************************)
(* State                                                                   *)
(***************************************************************************)
VARIABLES
  accessToken,    \* SmartActivityCache.accessToken is set (truthy)
  dbState,        \* ActivityDatabase.initPromise: "opening", "open", "failed"
  db,             \* object store "activities": key -> record
  memoryCache,    \* SmartActivityCache.memoryCache: String(id) -> record
  apiCallCount,   \* SmartActivityCache.apiCallCount
  cacheHitCount,  \* SmartActivityCache.cacheHitCount
  lw,             \* the running loadActivitiesWithPrivateNotes invocation
  prev,           \* history: the invocation completed just before
  weekly,         \* object store "weekly_mileage": weekId -> aggregate
  calc,           \* the WeeklyMileageCalculator and its running pass
  walk,           \* the dates of a pass: today, currentWeek, the weeks visited
  rf,             \* the notes viewer: its running refreshData call and its display
  wid,            \* two dates and their week ids (getWeekId)
  boot,           \* ActivityDatabase: indexedDB.open requests, operations in ensureReady
  eng,            \* the running getActivity, getActivities or handleActivitySelect call
  cl,             \* the running clearAll call
  twin            \* two sessions given the same calls: memory cache kept / emptied

vars == <<accessToken, dbState, db, memoryCache, apiCallCount, cacheHitCount, lw, prev, weekly, calc, walk, rf, wid, boot, eng, cl, twin>>

IdleLw ==
  [pc |-> "idle", caller |-> "none", summaries |-> <<>>, missingIds |-> <<>>,
   cachedActivities |-> <<>>, activityMap |-> EmptyMap, idx |-> 0,
   fetched |-> <<>>, result |-> <<>>, outcome |-> "none",
   calls |-> <<>>, store0 |-> {}, count0 |-> 0, dbFailed |-> FALSE,
   raced |-> FALSE]

NoStats ==
  [weeksProcessed |-> 0, apiCallsMade |-> 0, cacheHits |-> 0,
   rateLimitReached |-> FALSE, lastError |-> "null"]

IdleCalc ==
  [pc |-> "idle", isCalculating |-> FALSE, calculationStats |-> NoStats,
   currentWeek |-> 0, weeksBack |-> 0, cachedRuns |-> <<>>, outcome |-> "none",
   calls |-> <<>>, processed |-> {}, visited |-> <<>>, dbFailed |-> FALSE,
   busyCalls |-> 0]

NoPrev == [valid |-> FALSE, summaries |-> <<>>, result |-> <<>>, clean |-> FALSE]

IdleWalk ==
  [pc |-> "idle", today |-> 0, currentWeek |-> 0, weeksBack |-> 0,
   visited |-> <<>>, stored |-> {}, rateLimitReached |-> FALSE]

\* no date range selected: dateRange = {from: null, to: null}
NoRange == <<>>

IdleRf ==
  [pc |-> "idle", dateRange |-> NoRange, now |-> 0, readOk |-> TRUE,
   allCachedActivities |-> <<>>, relevantCachedActivities |-> <<>>,
   shouldFetchFromAPI |-> FALSE, fetchAfter |-> <<>>, fetchBefore |-> <<>>,
   calls |-> <<>>, details |-> <<>>, newActivities |-> <<>>,
   activities |-> <<>>, isLoading |-> FALSE, count0 |-> 0]

IdleWid == [pc |-> "input", a |-> 0, b |-> 0, idA |-> <<>>, idB |-> <<>>]

IdleEng ==
  [op |-> "none", pc |-> "idle", ids |-> <<>>, results |-> <<>>, memoryMisses |-> <<>>,
   dbMisses |-> <<>>, pending |-> {}, storing |-> {}, result |-> <<>>,
   log |-> {}, obtained |-> {}, fetched |-> {}, cleared |-> FALSE]

IdleCl == [pc |-> "idle", clears |-> 0, loaded |-> FALSE]

\* two sessions on the same store and remote: one keeps its memory cache,
\* the other starts every call with an empty one
IdleTwin ==
  [op |-> "none", calls |-> 0, memK |-> EmptyMap, dbK |-> EmptyMap, dbE |-> EmptyMap,
   resK |-> <<>>, resE |-> <<>>, clean |-> TRUE]

\* the constructor has called init() once; no operation has been issued
IdleBoot == [opens |-> 1, ops |-> [i \in 1..MaxOps |-> "none"], waited |-> {}]

Init ==
  /\ accessToken \in BOOLEAN
  /\ dbState = "opening"
  /\ db = EmptyMap
  /\ memoryCache = EmptyMap
  /\ apiCallCount = 0
  /\ cacheHitCount = 0
  /\ lw = IdleLw
  /\ prev = NoPrev
  /\ weekly = EmptyMap
  /\ calc = IdleCalc
  /\ walk = IdleWalk
  /\ rf = IdleRf
  /\ wid = IdleWid
  /\ boot = IdleBoot
  /\ eng = IdleEng
  /\ cl = IdleCl
  /\ twin = IdleTwin

\* the object store after storeActivity has written the Detail records of S
StoreOf(S) == [k \in {NumId(n) : n \in S} |-> EnhancedActivity(DetailActivity(k[2]))]

\* the page starts on a store that earlier sessions of the notes viewer
\* have filled with the Detail records of some activities
InitWithStore ==
  /\ accessToken \in BOOLEAN
  /\ dbState = "opening"
  /\ db \in {StoreOf(S) : S \in SUBSET Ids}
  /\ memoryCache = EmptyMap
  /\ apiCallCount = 0
  /\ cacheHitCount = 0
  /\ lw = IdleLw
  /\ prev = NoPrev
  /\ weekly = EmptyMap
  /\ calc = IdleCalc
  /\ walk = IdleWalk
  /\ rf = IdleRf
  /\ wid = IdleWid
  /\ boot = IdleBoot
  /\ eng = IdleEng
  /\ cl = IdleCl
  /\ twin = IdleTwin

\* request.onsuccess / request.onerror of indexedDB.open
DbInitDone ==
  /\ dbState = "opening"
  /\ dbState' \in {"open", "failed"}
  /\ UNCHANGED <<accessToken, db, memoryCache, apiCallCount, cacheHitCount, lw, prev, weekly, calc, walk, rf, wid, boot, eng, cl, twin>>

Reload ==
  /\ lw.pc = "idle"
  /\ accessToken' \in BOOLEAN
  /\ dbState' = "opening"
  /\ memoryCache' = EmptyMap
  /\ apiCallCount' = 0
  /\ cacheHitCount' = 0
  /\ calc.pc = "idle"
  /\ rf.pc = "idle"
  /\ eng.pc = "idle"
  /\ cl.pc = "idle"
  /\ prev' = NoPrev
  /\ calc' = IdleCalc
  /\ UNCHANGED <<db, lw, weekly, walk, rf, wid, boot, eng, cl, twin>>

(***************************************************************************)
(* SmartActivityCache.loadActivitiesWithPrivateNotes                       *)
(***************************************************************************)
\* variant: a failed check treats nothing as missing
MissingIdsAfterCheck_NoneMissing(store, activityIds, dbOk) ==
  IF dbOk THEN DbGetMissingActivityIds(store, activityIds) ELSE <<>>

\* missingIds after the database check; a failed check treats all as missing
MissingIdsAfterCheck(store, activityIds, dbOk) ==
  IF dbOk THEN DbGetMissingActivityIds(store, activityIds) ELSE activityIds

\* activityIds.filter(id => !missingIds.includes(id))
CachedIdsOf(activityIds, missingIds) ==
  SeqFilter(activityIds, SeqRange(activityIds) \ SeqRange(missingIds))

\* cachedActivities.forEach(activity => map.set(String(activity.id), activity))
RECURSIVE MapSetAll(_, _)
MapSetAll(m, activities) ==
  IF activities = <<>> THEN m
  ELSE MapSetAll(MapSet(m, String(Head(activities).id), Head(activities)), Tail(activities))

\* summaryActivities.find(a => String(a.id) === String(id)), then activityMap.set
FallbackToSummary(m, id, summaries) ==
  LET found == {i \in DOMAIN summaries : String(summaries[i].id) = String(id)}
  IN  IF found = {} THEN m
      ELSE MapSet(m, String(id), summaries[CHOOSE i \in found : \A j \in found : i <= j])

\* missingIds.forEach(id => ... use summary data ...)
RECURSIVE FallbackAll(_, _, _)
FallbackAll(m, missingIds, summaries) ==
  IF missingIds = <<>> THEN m
  ELSE FallbackAll(FallbackToSummary(m, Head(missingIds), summaries), Tail(missingIds), summaries)

\* activityIds.map(id => activityMap.get(String(id))).filter(a => a !== undefined)
RECURSIVE ResultInOrder(_, _)
ResultInOrder(activityIds, m) ==
  IF activityIds = <<>> THEN <<>>
  ELSE IF String(Head(activityIds)) \in DOMAIN m
       THEN <<m[String(Head(activityIds))]>> \o ResultInOrder(Tail(activityIds), m)
       ELSE ResultInOrder(Tail(activityIds), m)

\* the function returns its result
Returned(l) ==
  [l EXCEPT !.pc = "done", !.outcome = "resolved",
            !.result = ResultInOrder(ActivityIdsOf(l.summaries), l.activityMap)]

\* variant: the catch block does not fall back to the summary
FetchFailed_NoFallback(l, id, outcome) == l

\* what the catch block of the fetch loop does with the error
FetchFailed(l, id, outcome) ==
  [l EXCEPT !.activityMap = FallbackToSummary(l.activityMap, id, l.summaries)]

\* end of one iteration of "for (const id of missingIds)"
NextIteration(l) ==
  IF l.idx < Len(l.missingIds) THEN [l EXCEPT !.pc = "fetch", !.idx = l.idx + 1]
  ELSE Returned(l)

\* variant: the fetch loop is entered without looking at the token
AfterRead_IgnoresToken(l, token) ==
  IF l.missingIds # <<>> THEN [l EXCEPT !.pc = "fetch", !.idx = 1]
  ELSE Returned([l EXCEPT !.activityMap = FallbackAll(l.activityMap, l.missingIds, l.summaries)])

\* "if (this.accessToken && missingIds.length > 0) ... else ..."
AfterRead(l, token) ==
  IF token /\ l.missingIds # <<>> THEN [l EXCEPT !.pc = "fetch", !.idx = 1]
  ELSE Returned([l EXCEPT !.activityMap = FallbackAll(l.activityMap, l.missingIds, l.summaries)])

\* entry: empty input returns [] at once
LwBegin(summaries, caller) ==
  IF summaries = <<>>
  THEN [IdleLw EXCEPT !.pc = "done", !.caller = caller, !.outcome = "resolved",
                      !.store0 = DOMAIN db, !.count0 = apiCallCount]
  ELSE [IdleLw EXCEPT !.pc = "check", !.caller = caller, !.summaries = summaries,
                      !.store0 = DOMAIN db, !.count0 = apiCallCount]

\* the UI calls loadActivitiesWithPrivateNotes(summaries)
LwStart(ids) ==
  /\ lw.pc = "idle"
  /\ calc.pc = "idle"
  /\ eng.pc = "idle"
  /\ apiCallCount + Len(ids) <= MaxApiCalls
  /\ lw' = LwBegin(SummariesOf(ids), "ui")
  /\ UNCHANGED <<accessToken, dbState, db, memoryCache, apiCallCount, cacheHitCount, prev, weekly, calc, walk, rf, wid, boot, eng, cl, twin>>

\* await this.database.getMissingActivityIds(activityIds)
LwCheck ==
  /\ lw.pc = "check"
  /\ dbState # "opening"
  /\ \E readOk \in BOOLEAN :
       LET dbOk == dbState = "open" /\ readOk
       IN  lw' = [lw EXCEPT !.pc = "read",
                            !.missingIds = MissingIdsAfterCheck(db, ActivityIdsOf(lw.summaries), dbOk),
                            !.dbFailed = ~dbOk]
  /\ UNCHANGED <<accessToken, dbState, db, memoryCache, apiCallCount, cacheHitCount, prev, weekly, calc, walk, rf, wid, boot, eng, cl, twin>>

\* await this.database.getActivities(cachedIds), then the map is filled
LwRead ==
  /\ lw.pc = "read"
  /\ LET activityIds == ActivityIdsOf(lw.summaries)
     IN  IF Len(lw.missingIds) < Len(activityIds)
         THEN \E readOk \in BOOLEAN :
                LET dbOk == dbState = "open" /\ readOk
                    cached == IF dbOk THEN DbGetActivities(db, CachedIdsOf(activityIds, lw.missingIds))
                              ELSE <<>>
                    missing == IF dbOk THEN lw.missingIds ELSE activityIds
                IN  /\ memoryCache' = MapSetAll(memoryCache, cached)
                    /\ lw' = AfterRead([lw EXCEPT !.cachedActivities = cached,
                                                  !.missingIds = missing,
                                                  !.activityMap = MapSetAll(EmptyMap, cached),
                                                  !.dbFailed = lw.dbFailed \/ ~dbOk],
                                       accessToken)
         ELSE /\ memoryCache' = memoryCache
              /\ lw' = AfterRead(lw, accessToken)
  /\ UNCHANGED <<accessToken, dbState, db, apiCallCount, cacheHitCount, prev, weekly, calc, walk, rf, wid, boot, eng, cl, twin>>

\* this.apiCallCount++; await stravaAPI.getActivity(id)
LwFetch ==
  /\ lw.pc = "fetch"
  /\ apiCallCount' = apiCallCount + 1
  /\ \E outcome \in RemoteOutcomes :
       LET id == lw.missingIds[lw.idx]
           l  == [lw EXCEPT !.calls = Append(lw.calls, <<id, outcome>>)]
       IN  IF outcome = "ok"
           THEN /\ memoryCache' = MapSet(memoryCache, String(id), DetailActivity(id[2]))
                /\ lw' = [l EXCEPT !.pc = "store", !.fetched = <<DetailActivity(id[2])>>]
           ELSE /\ memoryCache' = memoryCache
                /\ lw' = NextIteration(FetchFailed(l, id, outcome))
  /\ UNCHANGED <<accessToken, dbState, db, cacheHitCount, prev, weekly, calc, walk, rf, wid, boot, eng, cl, twin>>

\* await this.database.storeActivity(activity); activityMap.set(...)
LwStore ==
  /\ lw.pc = "store"
  /\ dbState # "opening"
  /\ \E writeOk \in BOOLEAN :
       LET dbOk == dbState = "open" /\ writeOk
           activity == lw.fetched[1]
       IN  /\ db' = IF dbOk THEN DbStoreActivity(db, activity) ELSE db
           /\ lw' = NextIteration([lw EXCEPT !.activityMap = MapSet(lw.activityMap, String(activity.id), activity),
                                             !.fetched = <<>>,
                                             !.dbFailed = lw.dbFailed \/ ~dbOk])
  /\ UNCHANGED <<accessToken, dbState, memoryCache, apiCallCount, cacheHitCount, prev, weekly, calc, walk, rf, wid, boot, eng, cl, twin>>

\* the UI receives the resolved list
LwDone ==
  /\ lw.pc = "done"
  /\ lw.caller = "ui"
  /\ prev' = IF lw.summaries # <<>> /\ ~lw.dbFailed /\ \A i \in DOMAIN lw.calls : lw.calls[i][2] = "ok"
             THEN [valid |-> TRUE, summaries |-> lw.summaries, result |-> lw.result, clean |-> TRUE]
             ELSE NoPrev
  /\ lw' = IdleLw
  /\ UNCHANGED <<accessToken, dbState, db, memoryCache, apiCallCount, cacheHitCount, weekly, calc, walk, rf, wid, boot, eng, cl, twin>>

(***************************************************************************)
(* WeeklyMileageDatabase and WeeklyMileageCalculator                       *)
(* A week is named by the number of weeks it lies before the current one.  *)
(***************************************************************************)
\* activity.type === 'Run' || activity.sport_type === 'Run'
IsRun(activity) == activity.type = "Run" \/ activity.sport_type = "Run"

\* the records of a set as an array in key order (getAll)
RECURSIVE InKeyOrder(_)
InKeyOrder(S) ==
  IF S = {} THEN <<>>
  ELSE LET a == CHOOSE x \in S : \A y \in S : x.id[2] <= y.id[2]
       IN  <<a>> \o InKeyOrder(S \ {a})

\* getCachedActivitiesForWeek, then the filter for runs
CachedRunsForWeek(store, week, dbOk) ==
  IF dbOk THEN InKeyOrder({a \in DbGetAllActivities(store) : a.week = week /\ IsRun(a)})
  ELSE <<>>

\* (new Date() - weekEnd) / day > 7: false for the last complete week,
\* true for every week before it
WeekEndedOverSevenDaysAgo(week) == week >= 2

\* hasCompleteWeekCoverage(cachedRuns, weekStart, weekEnd)
HasCompleteWeekCoverage(cachedRuns, week) ==
  IF cachedRuns = <<>> THEN FALSE
  ELSE IF WeekEndedOverSevenDaysAgo(week) THEN TRUE
  ELSE Cardinality({cachedRuns[i].day : i \in DOMAIN cachedRuns}) >= 2

RECURSIVE SumDistance(_)
SumDistance(runs) == IF runs = <<>> THEN 0 ELSE Head(runs).distance + SumDistance(Tail(runs))

\* run.moving_time || run.elapsed_time || 0
RunTime(run) == IF run.moving_time # 0 THEN run.moving_time ELSE run.elapsed_time

\* runs.reduce((sum, run) => sum + (run.moving_time || run.elapsed_time || 0), 0)
RECURSIVE SumTime(_)
SumTime(runs) == IF runs = <<>> THEN 0 ELSE RunTime(Head(runs)) + SumTime(Tail(runs))

\* runs.reduce((sum, run) => sum + (run.total_elevation_gain || 0), 0)
RECURSIVE SumElevation(_)
SumElevation(runs) ==
  IF runs = <<>> THEN 0 ELSE Head(runs).total_elevation_gain + SumElevation(Tail(runs))

\* variant: the aggregate is written as not yet complete
CalculateWeekData_Incomplete(weekId, runs, isComplete) ==
  [weekId |-> weekId, totalDistance |-> SumDistance(runs), totalTime |-> SumTime(runs),
   totalElevation |-> SumElevation(runs), runCount |-> Len(runs),
   isComplete |-> FALSE, activities |-> ActivityIdsOf(runs)]

\* calculateWeekData(weekId, weekStart, weekEnd, runs, isComplete)
CalculateWeekData(weekId, runs, isComplete) ==
  [weekId |-> weekId, totalDistance |-> SumDistance(runs), totalTime |-> SumTime(runs),
   totalElevation |-> SumElevation(runs), runCount |-> Len(runs),
   isComplete |-> isComplete, activities |-> ActivityIdsOf(runs)]

\* storeWeeklyMileage(weekData): store.put on keyPath weekId
StoreWeeklyMileage(store, weekData) == MapSet(store, weekData.weekId, weekData)

\* variant: the stored aggregate is not consulted
WeekAlreadyComplete_Ignored(store, weekId) == FALSE

\* existingData && existingData.isComplete
WeekAlreadyComplete(store, weekId) == weekId \in DOMAIN store /\ store[weekId].isComplete

\* the list response for a week: Summary records of the week's activities
ListActivitiesOfWeek(week) == InKeyOrder({SummaryActivity(n) : n \in {m \in Ids : RemoteWeek(m) = week}})

\* variant: the listed runs are not compared with the cached ones
NewRuns_NoDedupe(apiActivities, cachedRuns) ==
  SeqFilter(apiActivities, {a \in SeqRange(apiActivities) : IsRun(a)})

\* apiRuns.filter(run => !cachedIds.has(run.id))
NewRuns(apiActivities, cachedRuns) ==
  LET cachedIds == {cachedRuns[i].id : i \in DOMAIN cachedRuns}
  IN  SeqFilter(apiActivities, {a \in SeqRange(apiActivities) : IsRun(a) /\ a.id \notin cachedIds})

\* currentWeek.setDate(currentWeek.getDate() - 7); weeksBack++
MoveToPreviousWeek(c) ==
  [c EXCEPT !.pc = "loop", !.currentWeek = c.currentWeek + 1, !.weeksBack = c.weeksBack + 1,
            !.cachedRuns = <<>>, !.dbFailed = FALSE]

\* processWeek returned: this.calculationStats.weeksProcessed++
WeekProcessed(c) ==
  [c EXCEPT !.calculationStats.weeksProcessed = c.calculationStats.weeksProcessed + 1,
            !.processed = c.processed \cup {c.currentWeek}]

\* variant: the failed week is counted as processed
WeekFailed_CountsWeek(c, error) ==
  IF IsRateLimitError(error)
  THEN [c EXCEPT !.calculationStats.rateLimitReached = TRUE,
                 !.calculationStats.weeksProcessed = c.calculationStats.weeksProcessed + 1]
  ELSE [c EXCEPT !.calculationStats.lastError = error]

\* processWeek threw: the catch block of the loop
WeekFailed(c, error) ==
  IF IsRateLimitError(error)
  THEN [c EXCEPT !.calculationStats.rateLimitReached = TRUE]
  ELSE [c EXCEPT !.calculationStats.lastError = error]

\* return this.calculationStats; finally { this.isCalculating = false }
CalcReturned(c) == [c EXCEPT !.pc = "done", !.isCalculating = FALSE, !.outcome = "resolved"]

\* while (weeksBack < maxWeeksBack && !rateLimitReached)
LoopContinues(c) == c.weeksBack < MaxWeeksBack /\ ~c.calculationStats.rateLimitReached

\* calculateWeeklyMileage(): entry
CalcStart ==
  /\ calc.pc = "idle"
  /\ ~calc.isCalculating
  /\ lw.pc = "idle"
  /\ apiCallCount + MaxId <= MaxApiCalls
  /\ calc' = [IdleCalc EXCEPT !.pc = "loop", !.isCalculating = TRUE, !.currentWeek = 1]
  /\ prev' = NoPrev
  /\ UNCHANGED <<accessToken, dbState, db, memoryCache, apiCallCount, cacheHitCount, lw, weekly, walk, rf, wid, boot, eng, cl, twin>>

\* variant: the call starts a pass of its own although one is running
SecondCall_Restarts(c) ==
  [IdleCalc EXCEPT !.pc = "loop", !.isCalculating = TRUE, !.currentWeek = 1,
                   !.busyCalls = c.busyCalls + 1]

\* calculateWeeklyMileage() entered again:
\* "if (this.isCalculating) return this.calculationStats"
SecondCall(c) ==
  IF c.isCalculating THEN [c EXCEPT !.busyCalls = c.busyCalls + 1]
  ELSE [IdleCalc EXCEPT !.pc = "loop", !.isCalculating = TRUE, !.currentWeek = 1,
                        !.busyCalls = c.busyCalls + 1]

\* calculateWeeklyMileage() is called while the pass is at an await
CalcBusy ==
  /\ calc.pc \in {"loop", "list", "enrich"}
  /\ calc.busyCalls < MaxBusyCalls
  /\ calc' = SecondCall(calc)
  /\ UNCHANGED <<accessToken, dbState, db, memoryCache, apiCallCount, cacheHitCount, lw, prev, weekly, walk, rf, wid, boot, eng, cl, twin>>

\* saving the week: storeWeeklyMileage, then back in the loop
SaveWeek(c, runs, wOk) ==
  /\ weekly' = IF wOk THEN StoreWeeklyMileage(weekly, CalculateWeekData(c.currentWeek, runs, TRUE))
               ELSE weekly
  /\ calc' = MoveToPreviousWeek(IF wOk THEN WeekProcessed(c) ELSE WeekFailed(c, "db"))

\* one turn of the loop up to the remote call: processWeek on cached data
CalcWeek ==
  /\ calc.pc = "loop"
  /\ LoopContinues(calc)
  /\ dbState # "opening"
  /\ LET c == [calc EXCEPT !.visited = Append(calc.visited, calc.currentWeek)]
     IN  \E wOk \in BOOLEAN, readOk \in BOOLEAN :
       IF ~wOk
       THEN /\ calc' = [MoveToPreviousWeek(WeekFailed(c, "db")) EXCEPT !.dbFailed = TRUE]
            /\ weekly' = weekly
       ELSE IF WeekAlreadyComplete(weekly, c.currentWeek)
       THEN /\ calc' = MoveToPreviousWeek(WeekProcessed(
                          [c EXCEPT !.calculationStats.cacheHits = c.calculationStats.cacheHits + 1]))
            /\ weekly' = weekly
       ELSE LET cachedRuns == CachedRunsForWeek(db, c.currentWeek, dbState = "open" /\ readOk)
            IN  IF HasCompleteWeekCoverage(cachedRuns, c.currentWeek)
                THEN \E w2Ok \in BOOLEAN :
                       SaveWeek([c EXCEPT !.calculationStats.cacheHits = c.calculationStats.cacheHits + 1],
                                cachedRuns, w2Ok)
                ELSE /\ calc' = [c EXCEPT !.pc = "list", !.cachedRuns = cachedRuns,
                                               !.dbFailed = ~(dbState = "open" /\ readOk)]
                     /\ weekly' = weekly
  /\ UNCHANGED <<accessToken, dbState, db, memoryCache, apiCallCount, cacheHitCount, lw, prev, walk, rf, wid, boot, eng, cl, twin>>

\* fetchCompleteWeekData: await this.stravaAPI.getActivities({after, before})
CalcList ==
  /\ calc.pc = "list"
  /\ \E outcome \in (IF accessToken THEN RemoteOutcomes ELSE {"error"}), wOk \in BOOLEAN :
       LET c == IF accessToken THEN [calc EXCEPT !.calls = Append(calc.calls, <<"list", outcome>>)]
                ELSE calc
           made == [c EXCEPT !.calculationStats.apiCallsMade = c.calculationStats.apiCallsMade + 1]
           newRuns == NewRuns(ListActivitiesOfWeek(c.currentWeek), c.cachedRuns)
       IN  IF outcome = "ok" /\ newRuns # <<>>
           THEN /\ lw' = LwBegin(newRuns, "calc")
                /\ calc' = [c EXCEPT !.pc = "enrich"]
                /\ weekly' = weekly
           ELSE IF IsRateLimitError(outcome)
           THEN /\ calc' = CalcReturned(WeekFailed(c, outcome))
                /\ UNCHANGED <<lw, weekly>>
           ELSE /\ SaveWeek(made, c.cachedRuns, wOk)
                /\ lw' = lw
  /\ UNCHANGED <<accessToken, dbState, db, memoryCache, apiCallCount, cacheHitCount, prev, walk, rf, wid, boot, eng, cl, twin>>

\* loadActivitiesWithPrivateNotes(newRuns) resolved: [...cachedRuns, ...detailedNewRuns]
CalcEnriched ==
  /\ calc.pc = "enrich"
  /\ lw.pc = "done"
  /\ lw.caller = "calc"
  /\ \E wOk \in BOOLEAN :
       LET c == [calc EXCEPT !.calls = calc.calls \o [i \in DOMAIN lw.calls |-> <<"detail", lw.calls[i][2]>>],
                             !.calculationStats.apiCallsMade = calc.calculationStats.apiCallsMade + 1]
       IN  SaveWeek(c, calc.cachedRuns \o lw.result, wOk)
  /\ lw' = IdleLw
  /\ UNCHANGED <<accessToken, dbState, db, memoryCache, apiCallCount, cacheHitCount, prev, walk, rf, wid, boot, eng, cl, twin>>

\* the loop condition fails: the pass returns its statistics
CalcReturn ==
  /\ calc.pc = "loop"
  /\ ~LoopContinues(calc)
  /\ calc' = CalcReturned(calc)
  /\ UNCHANGED <<accessToken, dbState, db, memoryCache, apiCallCount, cacheHitCount, lw, prev, weekly, walk, rf, wid, boot, eng, cl, twin>>

\* the UI receives the statistics of the pass
CalcDone ==
  /\ calc.pc = "done"
  /\ calc' = [IdleCalc EXCEPT !.calculationStats = calc.calculationStats]
  /\ UNCHANGED <<accessToken, dbState, db, memoryCache, apiCallCount, cacheHitCount, lw, prev, weekly, walk, rf, wid, boot, eng, cl, twin>>

(***************************************************************************)
(* The dates of a pass.  A date is the number of its day, counted from a   *)
(* Monday numbered 0; setDate works on the calendar, so adding days to a   *)
(* date is integer addition, and setHours only fixes the time of day.      *)
(***************************************************************************)
\* the days a pass may start on: every day of the week occurs
Todays == (MaxToday - 6)..MaxToday

\* Date.prototype.getDay(): 0 = Sunday, 1 = Monday, ... 6 = Saturday
GetDay(d) == (d + 1) % 7

\* variant: no adjustment when the day is a Sunday
GetWeekStart_NoSundayCase(date) == date - GetDay(date) + 1

\* getWeekStart(date): the Monday of the week containing the date
GetWeekStart(date) == date - GetDay(date) + (IF GetDay(date) = 0 THEN -6 ELSE 1)

\* getWeekEnd(date): the Sunday of the week containing the date
GetWeekEnd(date) == GetWeekStart(date) + 6

\* calculateWeeklyMileage(): today, currentWeekStart, lastCompleteWeekStart
WalkStart ==
  /\ walk.pc = "idle"
  /\ \E today \in Todays :
       walk' = [IdleWalk EXCEPT !.pc = "loop", !.today = today,
                                !.currentWeek = GetWeekStart(today) - 7]
  /\ UNCHANGED <<accessToken, dbState, db, memoryCache, apiCallCount, cacheHitCount, lw, prev, weekly, calc, rf, wid, boot, eng, cl, twin>>

\* one turn of the loop: weekStart and weekEnd of currentWeek, processWeek
\* (which stores the week, skips it, fails, or is rate limited), then
\* currentWeek.setDate(currentWeek.getDate() - 7); weeksBack++
WalkWeek ==
  /\ walk.pc = "loop"
  /\ walk.weeksBack < MaxWeeksBack /\ ~walk.rateLimitReached
  /\ \E outcome \in {"stored", "skipped", "error", "rate"} :
       LET weekStart == GetWeekStart(walk.currentWeek)
           weekEnd   == GetWeekEnd(walk.currentWeek)
           w == [walk EXCEPT !.visited = Append(walk.visited, <<weekStart, weekEnd>>)]
       IN  IF IsRateLimitError(outcome)
           THEN walk' = [w EXCEPT !.rateLimitReached = TRUE]
           ELSE walk' = [w EXCEPT !.stored = IF outcome = "stored" THEN walk.stored \cup {weekStart}
                                             ELSE walk.stored,
                                  !.currentWeek = walk.currentWeek - 7,
                                  !.weeksBack = walk.weeksBack + 1]
  /\ UNCHANGED <<accessToken, dbState, db, memoryCache, apiCallCount, cacheHitCount, lw, prev, weekly, calc, rf, wid, boot, eng, cl, twin>>

\* the loop condition fails: return this.calculationStats
WalkReturn ==
  /\ walk.pc = "loop"
  /\ ~(walk.weeksBack < MaxWeeksBack /\ ~walk.rateLimitReached)
  /\ walk' = [walk EXCEPT !.pc = "done"]
  /\ UNCHANGED <<accessToken, dbState, db, memoryCache, apiCallCount, cacheHitCount, lw, prev, weekly, calc, rf, wid, boot, eng, cl, twin>>

\* the caller receives the statistics; a later pass starts from new dates
WalkDone ==
  /\ walk.pc = "done"
  /\ walk' = IdleWalk
  /\ UNCHANGED <<accessToken, dbState, db, memoryCache, apiCallCount, cacheHitCount, lw, prev, weekly, calc, rf, wid, boot, eng, cl, twin>>

(***************************************************************************)
(* PrivateNotesViewer.refreshData                                          *)
(* Dates are day numbers relative to the Monday of the current week.       *)
(***************************************************************************)
\* 30 * 24 * 60 * 60 * 1000 milliseconds, in days
ThirtyDays == 30

\* new Date(activity.start_date)
StartDate(activity) == (activity.day - 1) - 7 * activity.week

\* the moments refreshData may run at (new Date())
RefreshNows == {-5, 30}

\* the date ranges the user may select: <<from, to>>
DateRanges == {<<-7, -6>>, <<-12, -7>>}

\* the demo activities shown without a token (loadDemoData)
DemoActivities == <<[SummaryActivity(0) EXCEPT !.fidelity = "demo"]>>

\* activityDate >= dateRange.from && activityDate <= dateRange.to
InDateRange(activity, dateRange) ==
  StartDate(activity) >= dateRange[1] /\ StartDate(activity) <= dateRange[2]

\* the filter applied when dateRange.from && dateRange.to
FilterByDateRange(activities, dateRange) ==
  IF dateRange = NoRange THEN activities
  ELSE SeqFilter(activities, {a \in SeqRange(activities) : InDateRange(a, dateRange)})

\* sortedByDate[0].start_date: the latest start date among the cached
MostRecentCached(activities) ==
  CHOOSE d \in {StartDate(a) : a \in SeqRange(activities)} :
     \A a \in SeqRange(activities) : StartDate(a) <= d

\* variant: without a range the last 30 days are fetched whatever is cached
FetchDecision_AlwaysThirtyDays(dateRange, allCachedActivities, now) ==
  IF dateRange # NoRange
  THEN [shouldFetchFromAPI |-> TRUE, fetchAfter |-> <<dateRange[1]>>, fetchBefore |-> <<dateRange[2]>>]
  ELSE [shouldFetchFromAPI |-> TRUE, fetchAfter |-> <<now - ThirtyDays>>, fetchBefore |-> <<>>]

\* variant: an explicit range is fetched only when nothing of it is cached
FetchDecision_TrustsCache(dateRange, allCachedActivities, now) ==
  IF dateRange # NoRange
  THEN [shouldFetchFromAPI |-> FilterByDateRange(allCachedActivities, dateRange) = <<>>,
        fetchAfter |-> <<dateRange[1]>>, fetchBefore |-> <<dateRange[2]>>]
  ELSE [shouldFetchFromAPI |-> allCachedActivities = <<>>,
        fetchAfter |-> <<now - ThirtyDays>>, fetchBefore |-> <<>>]

\* STEP 3: shouldFetchFromAPI, fetchAfter, fetchBefore
FetchDecision(dateRange, allCachedActivities, now) ==
  IF dateRange # NoRange
  THEN [shouldFetchFromAPI |-> TRUE, fetchAfter |-> <<dateRange[1]>>, fetchBefore |-> <<dateRange[2]>>]
  ELSE IF allCachedActivities = <<>>
  THEN [shouldFetchFromAPI |-> TRUE, fetchAfter |-> <<now - ThirtyDays>>, fetchBefore |-> <<>>]
  ELSE IF MostRecentCached(allCachedActivities) < now - ThirtyDays
  THEN [shouldFetchFromAPI |-> TRUE, fetchAfter |-> <<now - ThirtyDays>>, fetchBefore |-> <<>>]
  ELSE IF now - MostRecentCached(allCachedActivities) > 1
  THEN [shouldFetchFromAPI |-> TRUE, fetchAfter |-> <<MostRecentCached(allCachedActivities)>>,
        fetchBefore |-> <<>>]
  ELSE [shouldFetchFromAPI |-> FALSE, fetchAfter |-> <<>>, fetchBefore |-> <<>>]

\* the answer of the list endpoint to getActivities({after, before})
ListActivities(after, before) ==
  InKeyOrder({SummaryActivity(n) : n \in
     {m \in Ids : /\ after # <<>> => StartDate(SummaryActivity(m)) >= after[1]
                  /\ before # <<>> => StartDate(SummaryActivity(m)) <= before[1]}})

\* variant: the listed activities are not compared with the cached ones
NewActivities_NoDedupe(apiActivities, allCachedActivities) == apiActivities

\* apiActivities.filter(a => !cachedIds.has(a.id))
NewActivities(apiActivities, allCachedActivities) ==
  LET cachedIds == {allCachedActivities[i].id : i \in DOMAIN allCachedActivities}
  IN  SeqFilter(apiActivities, {a \in SeqRange(apiActivities) : a.id \notin cachedIds})

\* finalActivities.sort((a, b) => new Date(b.start_date) - new Date(a.start_date))
RECURSIVE SortByDateDescending(_)
SortByDateDescending(activities) ==
  IF activities = <<>> THEN <<>>
  ELSE LET latest == {i \in DOMAIN activities :
                        \A j \in DOMAIN activities : StartDate(activities[j]) <= StartDate(activities[i])}
           first  == CHOOSE i \in latest : \A j \in latest : i <= j
       IN  <<activities[first]>> \o
           SortByDateDescending([k \in 1..(Len(activities) - 1) |->
                                   IF k < first THEN activities[k] ELSE activities[k + 1]])

\* the end of the call: "finally { setIsLoading(false) }"
RfFinished(r) == [r EXCEPT !.pc = "done", !.isLoading = FALSE]

\* refreshData(): entry.  Without a token the demo data is loaded and the
\* call returns before the try block.
RfStart ==
  /\ rf.pc = "idle"
  /\ lw.pc = "idle"
  /\ calc.pc = "idle"
  /\ apiCallCount + MaxId <= MaxApiCalls
  /\ \E dateRange \in DateRanges \cup {NoRange} :
       rf' = IF ~accessToken
             THEN [IdleRf EXCEPT !.pc = "done", !.dateRange = dateRange,
                                 !.activities = DemoActivities, !.isLoading = rf.isLoading]
             ELSE [IdleRf EXCEPT !.pc = "cache", !.dateRange = dateRange,
                                 !.activities = rf.activities, !.isLoading = TRUE,
                                 !.count0 = apiCallCount]
  /\ UNCHANGED <<accessToken, dbState, db, memoryCache, apiCallCount, cacheHitCount, lw, prev, weekly, calc, walk, wid, boot, eng, cl, twin>>

\* STEP 1 to STEP 3: await getAllActivities(), filter by the date range,
\* show the cached activities, decide what to fetch
RfLoadCache ==
  /\ rf.pc = "cache"
  /\ dbState # "opening"
  /\ \E readOk \in BOOLEAN, now \in RefreshNows :
       LET ok       == dbState = "open" /\ readOk
           all      == IF ok THEN InKeyOrder(DbGetAllActivities(db)) ELSE <<>>
           relevant == FilterByDateRange(all, rf.dateRange)
           shown    == IF relevant # <<>> THEN relevant
                       ELSE IF rf.dateRange # NoRange THEN <<>> ELSE rf.activities
           nowRead  == IF rf.dateRange = NoRange THEN now ELSE 0
           decision == FetchDecision(rf.dateRange, all, nowRead)
           r == [rf EXCEPT !.readOk = ok, !.now = nowRead,
                           !.allCachedActivities = all,
                           !.relevantCachedActivities = relevant,
                           !.activities = shown,
                           !.shouldFetchFromAPI = decision.shouldFetchFromAPI,
                           !.fetchAfter = decision.fetchAfter,
                           !.fetchBefore = decision.fetchBefore]
       IN  rf' = IF decision.shouldFetchFromAPI THEN [r EXCEPT !.pc = "probe"] ELSE RfFinished(r)
  /\ UNCHANGED <<accessToken, dbState, db, memoryCache, apiCallCount, cacheHitCount, lw, prev, weekly, calc, walk, wid, boot, eng, cl, twin>>

\* "Test API connection": await stravaAPI.getAthlete(); a failure returns
RfProbe ==
  /\ rf.pc = "probe"
  /\ \E outcome \in RemoteOutcomes :
       LET r == [rf EXCEPT !.calls = Append(rf.calls,
                    [kind |-> "probe", after |-> <<>>, before |-> <<>>, outcome |-> outcome])]
       IN  rf' = IF outcome = "ok" THEN [r EXCEPT !.pc = "list"] ELSE RfFinished(r)
  /\ UNCHANGED <<accessToken, dbState, db, memoryCache, apiCallCount, cacheHitCount, lw, prev, weekly, calc, walk, wid, boot, eng, cl, twin>>

\* await stravaAPI.getActivities({after: fetchAfter, before: fetchBefore}),
\* then the new activities go to loadActivitiesWithPrivateNotes
RfList ==
  /\ rf.pc = "list"
  /\ \E outcome \in RemoteOutcomes :
       LET r == [rf EXCEPT !.calls = Append(rf.calls,
                    [kind |-> "list", after |-> rf.fetchAfter, before |-> rf.fetchBefore,
                     outcome |-> outcome])]
           new == NewActivities(ListActivities(rf.fetchAfter, rf.fetchBefore), rf.allCachedActivities)
       IN  IF outcome = "ok" /\ new # <<>>
           THEN /\ rf' = [r EXCEPT !.pc = "enrich", !.newActivities = new]
                /\ lw' = LwBegin(new, "refresh")
           ELSE /\ rf' = RfFinished(r)
                /\ lw' = lw
  /\ UNCHANGED <<accessToken, dbState, db, memoryCache, apiCallCount, cacheHitCount, prev, weekly, calc, walk, wid, boot, eng, cl, twin>>

\* loadActivitiesWithPrivateNotes(newActivities) resolved: combine with the
\* relevant cached activities, filter by the range, sort, setActivities
RfMerged ==
  /\ rf.pc = "enrich"
  /\ lw.pc = "done"
  /\ lw.caller = "refresh"
  /\ LET combined == rf.relevantCachedActivities \o lw.result
         final    == SortByDateDescending(FilterByDateRange(combined, rf.dateRange))
     IN  rf' = RfFinished([rf EXCEPT !.activities = final, !.details = lw.calls])
  /\ lw' = IdleLw
  /\ UNCHANGED <<accessToken, dbState, db, memoryCache, apiCallCount, cacheHitCount, prev, weekly, calc, walk, wid, boot, eng, cl, twin>>

\* the call has returned; the display stays
RfDone ==
  /\ rf.pc = "done"
  /\ rf' = [IdleRf EXCEPT !.activities = rf.activities, !.isLoading = rf.isLoading]
  /\ UNCHANGED <<accessToken, dbState, db, memoryCache, apiCallCount, cacheHitCount, lw, prev, weekly, calc, walk, wid, boot, eng, cl, twin>>

(***************************************************************************)
(* WeeklyMileageDatabase.getWeekId                                         *)
(* Day 0 is Monday 2018-01-01; the week id "YYYY-WW" is the pair of its    *)
(* year and its week number (the two-digit padding loses nothing).         *)
(***************************************************************************)
Dates == 0..MaxDate

\* the length of a calendar year (2018, 2019: 365 days; 2020: 366)
DaysInYear(y) == IF y % 4 = 0 THEN 366 ELSE 365

\* the day number of January 1st of year y
RECURSIVE YearStart(_)
YearStart(y) == IF y <= 2018 THEN 0 ELSE YearStart(y - 1) + DaysInYear(y - 1)

\* Date.prototype.getFullYear()
GetFullYear(d) == CHOOSE y \in 2018..2021 : YearStart(y) <= d /\ d < YearStart(y + 1)

\* getWeekNumber(date): the week number of the Thursday of the date's week,
\* counted in the year of that Thursday
GetWeekNumber(date) ==
  LET dayNum   == IF GetDay(date) = 0 THEN 7 ELSE GetDay(date)
      d        == date + 4 - dayNum
      yearStart == YearStart(GetFullYear(d))
  IN  ((d - yearStart) \div 7) + 1

\* getWeekId(date): `${year}-${weekNumber}` of the Monday of the date's week
GetWeekId(date) ==
  LET monday == GetWeekStart(date)
  IN  <<GetFullYear(monday), GetWeekNumber(monday)>>

\* the inputs are two dates
InitWeekId ==
  /\ accessToken = TRUE
  /\ dbState = "opening"
  /\ db = EmptyMap
  /\ memoryCache = EmptyMap
  /\ apiCallCount = 0
  /\ cacheHitCount = 0
  /\ lw = IdleLw
  /\ prev = NoPrev
  /\ weekly = EmptyMap
  /\ calc = IdleCalc
  /\ walk = IdleWalk
  /\ rf = IdleRf
  /\ wid \in {[IdleWid EXCEPT !.a = a, !.b = b] : a, b \in Dates}
  /\ boot = IdleBoot
  /\ eng = IdleEng
  /\ cl = IdleCl
  /\ twin = IdleTwin

\* getWeekId is applied to both dates
WeekIds ==
  /\ wid.pc = "input"
  /\ wid' = [wid EXCEPT !.pc = "done", !.idA = GetWeekId(wid.a), !.idB = GetWeekId(wid.b)]
  /\ UNCHANGED <<accessToken, dbState, db, memoryCache, apiCallCount, cacheHitCount, lw, prev, weekly, calc, walk, rf, boot, eng, cl, twin>>

(***************************************************************************)
(* ActivityDatabase: init and ensureReady                                  *)
(***************************************************************************)
\* variant: ensureReady opens the database again when this.db is not set
EnsureReady_Reinit(b, i, dbSet) ==
  IF dbSet THEN [b EXCEPT !.ops[i] = "running"]
  ELSE [b EXCEPT !.ops[i] = "waiting", !.waited = b.waited \cup {i}, !.opens = b.opens + 1]

\* ensureReady(): "if (!this.db) await this.initPromise"
EnsureReady(b, i, dbSet) ==
  IF dbSet THEN [b EXCEPT !.ops[i] = "running"]
  ELSE [b EXCEPT !.ops[i] = "waiting", !.waited = b.waited \cup {i}]

\* an operation of the database is called: await this.ensureReady()
OpCall(i) ==
  /\ boot.ops[i] = "none"
  /\ boot' = EnsureReady(boot, i, dbState = "open")
  /\ UNCHANGED <<accessToken, dbState, db, memoryCache, apiCallCount, cacheHitCount, lw, prev, weekly, calc, walk, rf, wid, eng, cl, twin>>

\* initPromise has settled: the awaiting operation goes on, or throws
OpResume(i) ==
  /\ boot.ops[i] = "waiting"
  /\ dbState # "opening"
  /\ boot' = [boot EXCEPT !.ops[i] = IF dbState = "open" THEN "running" ELSE "rejected"]
  /\ UNCHANGED <<accessToken, dbState, db, memoryCache, apiCallCount, cacheHitCount, lw, prev, weekly, calc, walk, rf, wid, eng, cl, twin>>

\* the request of the operation on the open database succeeds
OpComplete(i) ==
  /\ boot.ops[i] = "running"
  /\ boot' = [boot EXCEPT !.ops[i] = "resolved"]
  /\ UNCHANGED <<accessToken, dbState, db, memoryCache, apiCallCount, cacheHitCount, lw, prev, weekly, calc, walk, rf, wid, eng, cl, twin>>

(***************************************************************************)
(* SmartActivityCache.getActivity, getActivities, clearAll, cleanup and    *)
(* PrivateNotesViewer.handleActivitySelect                                 *)
(***************************************************************************)
\* activityIds.map(id => String(id))
StringsOf(ids) == [i \in DOMAIN ids |-> String(ids[i])]

\* Map.prototype.set on a Map kept in insertion order as <<key, value>> pairs
OrderedSet(results, key, value) ==
  IF \E i \in DOMAIN results : results[i][1] = key
  THEN [i \in DOMAIN results |-> IF results[i][1] = key THEN <<key, value>> ELSE results[i]]
  ELSE Append(results, <<key, value>>)

\* for (const activity of dbResults) results.set(String(activity.id), activity)
RECURSIVE OrderedSetAll(_, _)
OrderedSetAll(results, activities) ==
  IF activities = <<>> THEN results
  ELSE OrderedSetAll(OrderedSet(results, String(Head(activities).id), Head(activities)),
                     Tail(activities))

\* Array.from(results.values())
ValuesOf(results) == [i \in DOMAIN results |-> results[i][2]]

\* the loop over ids: results.set(id, this.memoryCache.get(id)) for the hits
MemoryHits(mem, ids) ==
  LET hits == SeqFilter(ids, SeqRange(ids) \cap DOMAIN mem)
  IN  [i \in DOMAIN hits |-> <<hits[i], mem[hits[i]]>>]

\* memoryMisses.push(id) for the others
MemoryMisses(mem, ids) == SeqFilter(ids, SeqRange(ids) \ DOMAIN mem)

\* memoryMisses.filter(id => !foundInDb.has(id))
DbMisses(memoryMisses, dbResults) ==
  SeqFilter(memoryMisses, SeqRange(memoryMisses) \ {String(a.id) : a \in SeqRange(dbResults)})

\* variant: the summary shown after a failed detail request is stored
SelectFailed_StoresSummary(store, activity) == DbStoreActivity(store, activity)

\* handleActivitySelect, catch block: setSelectedActivityDetails(activity)
SelectFailed(store, activity) == store

\* variant: the put replaces the content of the store
PutActivity_ReplacesStore(store, activity, dbOk) ==
  IF dbOk THEN DbStoreActivity(EmptyMap, activity) ELSE store

\* await this.database.storeActivity(activity), errors caught by the caller
PutActivity(store, activity, dbOk) ==
  IF dbOk THEN DbStoreActivity(store, activity) ELSE store

\* getActivity(activityId): the memory cache is checked first
GaStart(n) ==
  /\ eng.pc = "idle"
  /\ lw.pc = "idle"
  /\ apiCallCount + 1 <= MaxApiCalls
  /\ cacheHitCount + 1 <= MaxCacheHits
  /\ LET id == String(NumId(n))
     IN  IF id \in DOMAIN memoryCache
         THEN /\ cacheHitCount' = cacheHitCount + 1
              /\ eng' = [IdleEng EXCEPT !.op = "getActivity", !.pc = "done", !.ids = <<id>>,
                                        !.result = <<memoryCache[id]>>]
         ELSE /\ cacheHitCount' = cacheHitCount
              /\ eng' = [IdleEng EXCEPT !.op = "getActivity", !.pc = "db", !.ids = <<id>>]
  /\ UNCHANGED <<accessToken, dbState, db, memoryCache, apiCallCount, lw, prev, weekly, calc, walk, rf, wid, boot, cl, twin>>

\* getActivity: await this.database.getActivity(id)
GaDb ==
  /\ eng.op = "getActivity"
  /\ eng.pc = "db"
  /\ dbState # "opening"
  /\ \E readOk \in BOOLEAN :
       LET dbOk == dbState = "open" /\ readOk
           id   == eng.ids[1]
           e    == [eng EXCEPT !.log = eng.log \cup {<<"db", id>>}]
       IN  IF dbOk /\ DbHasActivity(db, id)
           THEN /\ cacheHitCount' = cacheHitCount + 1
                /\ memoryCache' = MapSet(memoryCache, id, DbGetActivity(db, id))
                /\ eng' = [e EXCEPT !.pc = "done", !.result = <<DbGetActivity(db, id)>>,
                                    !.obtained = {id}]
           ELSE /\ UNCHANGED <<cacheHitCount, memoryCache>>
                /\ eng' = [e EXCEPT !.pc = IF accessToken THEN "api" ELSE "done"]
  /\ UNCHANGED <<accessToken, dbState, db, apiCallCount, lw, prev, weekly, calc, walk, rf, wid, boot, cl, twin>>

\* getActivity: this.apiCallCount++; await stravaAPI.getActivity(id);
\* storeActivity sets the memory cache before it awaits the database
GaApi ==
  /\ eng.op = "getActivity"
  /\ eng.pc = "api"
  /\ apiCallCount' = apiCallCount + 1
  /\ \E outcome \in RemoteOutcomes :
       LET id       == eng.ids[1]
           activity == DetailActivity(id[2])
           e        == [eng EXCEPT !.log = eng.log \cup {<<"api", id>>}]
       IN  IF outcome = "ok"
           THEN /\ memoryCache' = MapSet(memoryCache, String(activity.id), activity)
                /\ eng' = [e EXCEPT !.pc = "store", !.result = <<activity>>,
                                    !.obtained = eng.obtained \cup {id},
                                    !.fetched = eng.fetched \cup {activity.id}]
           ELSE /\ memoryCache' = memoryCache
                /\ eng' = [e EXCEPT !.pc = "done"]
  /\ UNCHANGED <<accessToken, dbState, db, cacheHitCount, lw, prev, weekly, calc, walk, rf, wid, boot, cl, twin>>

\* getActivity: storeActivity's await this.database.storeActivity(activity)
GaStore ==
  /\ eng.op = "getActivity"
  /\ eng.pc = "store"
  /\ dbState # "opening"
  /\ \E writeOk \in BOOLEAN :
       db' = PutActivity(db, eng.result[1], dbState = "open" /\ writeOk)
  /\ eng' = [eng EXCEPT !.pc = "done"]
  /\ UNCHANGED <<accessToken, dbState, memoryCache, apiCallCount, cacheHitCount, lw, prev, weekly, calc, walk, rf, wid, boot, cl, twin>>

\* getActivities(activityIds): the memory cache is checked for all ids
GsStart(ids) ==
  /\ eng.pc = "idle"
  /\ lw.pc = "idle"
  /\ apiCallCount + Len(ids) <= MaxApiCalls
  /\ cacheHitCount + Len(ids) <= MaxCacheHits
  /\ LET strs   == StringsOf([i \in DOMAIN ids |-> NumId(ids[i])])
         hits   == MemoryHits(memoryCache, strs)
         misses == MemoryMisses(memoryCache, strs)
         e      == [IdleEng EXCEPT !.op = "getActivities", !.ids = strs, !.results = hits,
                                   !.memoryMisses = misses]
     IN  /\ cacheHitCount' = cacheHitCount + Len(hits)
         /\ eng' = IF misses = <<>> THEN [e EXCEPT !.pc = "done", !.result = ValuesOf(hits)]
                   ELSE [e EXCEPT !.pc = "db"]
  /\ UNCHANGED <<accessToken, dbState, db, memoryCache, apiCallCount, lw, prev, weekly, calc, walk, rf, wid, boot, cl, twin>>

\* getActivities: await this.database.getActivities(memoryMisses); the
\* requests for the ids still missing are all issued at once
GsDb ==
  /\ eng.op = "getActivities"
  /\ eng.pc = "db"
  /\ dbState # "opening"
  /\ \E readOk \in BOOLEAN :
       LET dbOk      == dbState = "open" /\ readOk
           dbResults == IF dbOk THEN DbGetActivities(db, eng.memoryMisses) ELSE <<>>
           results   == OrderedSetAll(eng.results, dbResults)
           dbMisses  == DbMisses(eng.memoryMisses, dbResults)
           e         == [eng EXCEPT !.log = eng.log \cup {<<"db", id>> : id \in SeqRange(eng.memoryMisses)},
                                    !.results = results, !.dbMisses = dbMisses,
                                    !.obtained = {String(a.id) : a \in SeqRange(dbResults)}]
       IN  /\ memoryCache' = MapSetAll(memoryCache, dbResults)
           /\ cacheHitCount' = cacheHitCount + Len(dbResults)
           /\ IF dbMisses # <<>> /\ accessToken
              THEN /\ eng' = [e EXCEPT !.pc = "api", !.pending = SeqRange(dbMisses)]
                   /\ apiCallCount' = apiCallCount + Len(dbMisses)
              ELSE /\ eng' = [e EXCEPT !.pc = "done", !.result = ValuesOf(results)]
                   /\ apiCallCount' = apiCallCount
  /\ UNCHANGED <<accessToken, dbState, db, lw, prev, weekly, calc, walk, rf, wid, boot, cl, twin>>

\* getActivities: one of the requests issued by dbMisses.map settles
GsResponse(id) ==
  /\ eng.op = "getActivities"
  /\ eng.pc = "api"
  /\ id \in eng.pending
  /\ \E outcome \in RemoteOutcomes :
       LET activity == DetailActivity(id[2])
           e        == [eng EXCEPT !.log = eng.log \cup {<<"api", id>>},
                                   !.pending = eng.pending \ {id}]
       IN  IF outcome = "ok"
           THEN /\ memoryCache' = MapSet(memoryCache, String(activity.id), activity)
                /\ eng' = [e EXCEPT !.storing = eng.storing \cup {id},
                                    !.obtained = eng.obtained \cup {id},
                                    !.fetched = eng.fetched \cup {activity.id}]
           ELSE /\ memoryCache' = memoryCache
                /\ eng' = e
  /\ UNCHANGED <<accessToken, dbState, db, apiCallCount, cacheHitCount, lw, prev, weekly, calc, walk, rf, wid, boot, cl, twin>>

\* getActivities: storeActivity has settled; results.set(id, activity)
GsStored(id) ==
  /\ eng.op = "getActivities"
  /\ eng.pc = "api"
  /\ id \in eng.storing
  /\ dbState # "opening"
  /\ \E writeOk \in BOOLEAN :
       db' = PutActivity(db, DetailActivity(id[2]), dbState = "open" /\ writeOk)
  /\ eng' = [eng EXCEPT !.storing = eng.storing \ {id},
                        !.results = OrderedSet(eng.results, id, DetailActivity(id[2]))]
  /\ UNCHANGED <<accessToken, dbState, memoryCache, apiCallCount, cacheHitCount, lw, prev, weekly, calc, walk, rf, wid, boot, cl, twin>>

\* getActivities: Promise.all has settled; return Array.from(results.values())
GsReturn ==
  /\ eng.op = "getActivities"
  /\ eng.pc = "api"
  /\ eng.pending = {}
  /\ eng.storing = {}
  /\ eng' = [eng EXCEPT !.pc = "done", !.result = ValuesOf(eng.results)]
  /\ UNCHANGED <<accessToken, dbState, db, memoryCache, apiCallCount, cacheHitCount, lw, prev, weekly, calc, walk, rf, wid, boot, cl, twin>>

\* handleActivitySelect(activity): without a token the activity itself is shown
SelStart(n) ==
  /\ eng.pc = "idle"
  /\ lw.pc = "idle"
  /\ eng' = IF accessToken
            THEN [IdleEng EXCEPT !.op = "select", !.pc = "db", !.ids = <<NumId(n)>>]
            ELSE [IdleEng EXCEPT !.op = "select", !.pc = "done", !.ids = <<NumId(n)>>,
                                 !.result = <<SummaryActivity(n)>>]
  /\ UNCHANGED <<accessToken, dbState, db, memoryCache, apiCallCount, cacheHitCount, lw, prev, weekly, calc, walk, rf, wid, boot, cl, twin>>

\* handleActivitySelect: await smartCache.database.getActivity(activity.id)
SelDb ==
  /\ eng.op = "select"
  /\ eng.pc = "db"
  /\ dbState # "opening"
  /\ \E readOk \in BOOLEAN :
       LET dbOk == dbState = "open" /\ readOk
           id   == eng.ids[1]
           e    == [eng EXCEPT !.log = eng.log \cup {<<"db", id>>}]
       IN  eng' = IF dbOk /\ DbHasActivity(db, id)
                  THEN [e EXCEPT !.pc = "done", !.result = <<DbGetActivity(db, id)>>,
                                 !.obtained = {id}]
                  ELSE [e EXCEPT !.pc = "api"]
  /\ UNCHANGED <<accessToken, dbState, db, memoryCache, apiCallCount, cacheHitCount, lw, prev, weekly, calc, walk, rf, wid, boot, cl, twin>>

\* handleActivitySelect: await stravaAPI.getActivity(activity.id); on an
\* error the summary is shown
SelApi ==
  /\ eng.op = "select"
  /\ eng.pc = "api"
  /\ \E outcome \in RemoteOutcomes :
       LET id == eng.ids[1]
           e  == [eng EXCEPT !.log = eng.log \cup {<<"api", id>>}]
       IN  IF outcome = "ok"
           THEN /\ eng' = [e EXCEPT !.pc = "store", !.result = <<DetailActivity(id[2])>>,
                                    !.obtained = {id}, !.fetched = {id}]
                /\ db' = db
           ELSE /\ eng' = [e EXCEPT !.pc = "done", !.result = <<SummaryActivity(id[2])>>]
                /\ db' = SelectFailed(db, SummaryActivity(id[2]))
  /\ UNCHANGED <<accessToken, dbState, memoryCache, apiCallCount, cacheHitCount, lw, prev, weekly, calc, walk, rf, wid, boot, cl, twin>>

\* handleActivitySelect: await smartCache.database.storeActivity(details)
SelStore ==
  /\ eng.op = "select"
  /\ eng.pc = "store"
  /\ dbState # "opening"
  /\ \E writeOk \in BOOLEAN :
       db' = PutActivity(db, eng.result[1], dbState = "open" /\ writeOk)
  /\ eng' = [eng EXCEPT !.pc = "done"]
  /\ UNCHANGED <<accessToken, dbState, memoryCache, apiCallCount, cacheHitCount, lw, prev, weekly, calc, walk, rf, wid, boot, cl, twin>>

\* the caller has received the result of the call
EngDone ==
  /\ eng.pc = "done"
  /\ eng' = IdleEng
  /\ UNCHANGED <<accessToken, dbState, db, memoryCache, apiCallCount, cacheHitCount, lw, prev, weekly, calc, walk, rf, wid, boot, cl, twin>>

\* history: records of input ids were removed from the store while
\* loadActivitiesWithPrivateNotes was between its check and its read
RacedBy(l, removed) ==
  IF l.pc = "read" /\ removed \cap SeqRange(ActivityIdsOf(l.summaries)) # {}
  THEN [l EXCEPT !.raced = TRUE] ELSE l

\* clearAll(): this.memoryCache.clear(), then the database is awaited
ClStart ==
  /\ cl.pc = "idle"
  /\ cl.clears < MaxClears
  /\ memoryCache' = EmptyMap
  /\ cl' = [cl EXCEPT !.pc = "clearing", !.clears = cl.clears + 1]
  /\ eng' = IF eng.pc = "idle" THEN eng ELSE [eng EXCEPT !.cleared = TRUE]
  /\ UNCHANGED <<accessToken, dbState, db, apiCallCount, cacheHitCount, lw, prev, weekly, calc, walk, rf, wid, boot, twin>>

\* clearAll(): await this.database.clearAll(); the counters are reset
ClDb ==
  /\ cl.pc = "clearing"
  /\ dbState # "opening"
  /\ \E clearOk \in BOOLEAN :
       IF dbState = "open" /\ clearOk
       THEN /\ db' = EmptyMap
            /\ apiCallCount' = 0
            /\ cacheHitCount' = 0
            /\ lw' = RacedBy(lw, DOMAIN db)
       ELSE UNCHANGED <<db, apiCallCount, cacheHitCount, lw>>
  /\ cl' = [cl EXCEPT !.pc = "idle"]
  /\ UNCHANGED <<accessToken, dbState, memoryCache, prev, weekly, calc, walk, rf, wid, boot, eng, twin>>

\* cleanup(): cleanupOldActivities(90) deletes the records whose cached_at
\* lies before the cutoff; which ones these are depends on the clock
Cleanup ==
  /\ dbState = "open"
  /\ \E old \in (SUBSET DOMAIN db) \ {{}} :
       /\ db' = [k \in (DOMAIN db) \ old |-> db[k]]
       /\ lw' = RacedBy(lw, old)
  /\ UNCHANGED <<accessToken, dbState, memoryCache, apiCallCount, cacheHitCount, prev, weekly, calc, walk, rf, wid, boot, eng, cl, twin>>

(***************************************************************************)
(* getActivity, getActivities and loadActivitiesWithPrivateNotes as whole   *)
(* calls, given to two sessions that differ only in the memory cache        *)
(***************************************************************************)
\* what the environment does during one call: the ids whose detail request
\* succeeds, the order in which the answers of parallel requests arrive,
\* and whether the database reads and writes succeed
Envs(ids, parallel) ==
  [ok : SUBSET SeqRange(ids),
   arrival : IF parallel THEN {s \in [1..Len(ids) -> SeqRange(ids)] : IsDistinct(s)} ELSE {ids},
   readOk : BOOLEAN, writeOk : BOOLEAN]

\* storeActivity for each fetched activity
RECURSIVE PutAll(_, _, _)
PutAll(store, activities, dbOk) ==
  IF activities = <<>> THEN store
  ELSE PutAll(PutActivity(store, Head(activities), dbOk), Tail(activities), dbOk)

\* getActivity(activityId) from entry to return
CallGetActivity(mem, store, n, env, token) ==
  LET id == String(NumId(n))
  IN  IF id \in DOMAIN mem
      THEN [result |-> <<mem[id]>>, mem |-> mem, store |-> store]
      ELSE IF env.readOk /\ DbHasActivity(store, id)
      THEN [result |-> <<DbGetActivity(store, id)>>,
            mem |-> MapSet(mem, id, DbGetActivity(store, id)), store |-> store]
      ELSE IF token /\ n \in env.ok
      THEN [result |-> <<DetailActivity(n)>>,
            mem |-> MapSet(mem, String(DetailActivity(n).id), DetailActivity(n)),
            store |-> PutActivity(store, DetailActivity(n), env.writeOk)]
      ELSE [result |-> <<>>, mem |-> mem, store |-> store]

\* getActivities(activityIds) from entry to return
CallGetActivities(mem, store, ids, env, token) ==
  LET strs      == StringsOf([i \in DOMAIN ids |-> NumId(ids[i])])
      hits      == MemoryHits(mem, strs)
      misses    == MemoryMisses(mem, strs)
      dbResults == IF env.readOk THEN DbGetActivities(store, misses) ELSE <<>>
      dbMisses  == DbMisses(misses, dbResults)
      answered  == IF token
                   THEN SeqFilter(env.arrival, {n \in env.ok : String(NumId(n)) \in SeqRange(dbMisses)})
                   ELSE <<>>
      fetched   == [i \in DOMAIN answered |-> DetailActivity(answered[i])]
  IN  [result |-> ValuesOf(OrderedSetAll(OrderedSetAll(hits, dbResults), fetched)),
       mem    |-> MapSetAll(MapSetAll(mem, dbResults), fetched),
       store  |-> PutAll(store, fetched, env.writeOk)]

\* the fetch loop of loadActivitiesWithPrivateNotes over missingIds
RECURSIVE FetchAll(_, _, _, _)
FetchAll(acc, missingIds, summaries, env) ==
  IF missingIds = <<>> THEN acc
  ELSE LET id       == Head(missingIds)
           activity == DetailActivity(id[2])
       IN  IF id[2] \in env.ok
           THEN FetchAll([map   |-> MapSet(acc.map, String(activity.id), activity),
                          mem   |-> MapSet(acc.mem, String(activity.id), activity),
                          store |-> PutActivity(acc.store, activity, env.writeOk)],
                         Tail(missingIds), summaries, env)
           ELSE FetchAll([acc EXCEPT !.map = FallbackToSummary(acc.map, id, summaries)],
                         Tail(missingIds), summaries, env)

\* loadActivitiesWithPrivateNotes(summaryActivities) from entry to return
CallLoad(mem, store, ids, env, token) ==
  LET summaries   == SummariesOf(ids)
      activityIds == ActivityIdsOf(summaries)
      missing     == MissingIdsAfterCheck(store, activityIds, env.readOk)
      cached      == IF Len(missing) < Len(activityIds)
                     THEN DbGetActivities(store, CachedIdsOf(activityIds, missing))
                     ELSE <<>>
      acc         == [map |-> MapSetAll(EmptyMap, cached), mem |-> MapSetAll(mem, cached),
                      store |-> store]
      after       == IF token /\ missing # <<>>
                     THEN FetchAll(acc, missing, summaries, env)
                     ELSE [acc EXCEPT !.map = FallbackAll(acc.map, missing, summaries)]
  IN  IF summaries = <<>> THEN [result |-> <<>>, mem |-> mem, store |-> store]
      ELSE [result |-> ResultInOrder(activityIds, after.map), mem |-> after.mem,
            store |-> after.store]

\* the two sessions after the same call: the first went into it with its
\* memory cache, the second with an empty one
TwinAfter(t, op, kept, emptied, clean) ==
  [t EXCEPT !.op = op, !.calls = t.calls + 1,
            !.memK = kept.mem, !.dbK = kept.store, !.dbE = emptied.store,
            !.resK = kept.result, !.resE = emptied.result,
            !.clean = t.clean /\ clean]

\* history: every detail request of the call succeeds, the answers arrive in
\* the order of the requests, and the database reads and writes succeed
CleanEnv(ids, env) ==
  /\ env.ok = SeqRange(ids)
  /\ env.arrival = ids
  /\ env.readOk
  /\ env.writeOk

\* two sessions that find the same records in the store
InitTwin ==
  /\ accessToken \in BOOLEAN
  /\ dbState = "open"
  /\ db = EmptyMap
  /\ memoryCache = EmptyMap
  /\ apiCallCount = 0
  /\ cacheHitCount = 0
  /\ lw = IdleLw
  /\ prev = NoPrev
  /\ weekly = EmptyMap
  /\ calc = IdleCalc
  /\ walk = IdleWalk
  /\ rf = IdleRf
  /\ wid = IdleWid
  /\ boot = IdleBoot
  /\ eng = IdleEng
  /\ cl = IdleCl
  /\ twin \in {[IdleTwin EXCEPT !.dbK = StoreOf(S), !.dbE = StoreOf(S)] : S \in SUBSET Ids}

\* both sessions are given getActivity(n)
TwinGetActivity(n) ==
  /\ twin.calls < MaxTwinCalls
  /\ \E env \in Envs(<<n>>, FALSE) :
       twin' = TwinAfter(twin, "getActivity",
                         CallGetActivity(twin.memK, twin.dbK, n, env, accessToken),
                         CallGetActivity(EmptyMap, twin.dbE, n, env, accessToken),
                         CleanEnv(<<n>>, env))
  /\ UNCHANGED <<accessToken, dbState, db, memoryCache, apiCallCount, cacheHitCount, lw, prev, weekly, calc, walk, rf, wid, boot, eng, cl>>

\* both sessions are given getActivities(ids)
TwinGetActivities(ids) ==
  /\ twin.calls < MaxTwinCalls
  /\ Len(ids) <= MaxBatch
  /\ \E env \in Envs(ids, TRUE) :
       twin' = TwinAfter(twin, "getActivities",
                         CallGetActivities(twin.memK, twin.dbK, ids, env, accessToken),
                         CallGetActivities(EmptyMap, twin.dbE, ids, env, accessToken),
                         CleanEnv(ids, env))
  /\ UNCHANGED <<accessToken, dbState, db, memoryCache, apiCallCount, cacheHitCount, lw, prev, weekly, calc, walk, rf, wid, boot, eng, cl>>

\* both sessions are given loadActivitiesWithPrivateNotes(summaries of ids)
TwinLoad(ids) ==
  /\ twin.calls < MaxTwinCalls
  /\ Len(ids) <= MaxBatch
  /\ \E env \in Envs(ids, FALSE) :
       twin' = TwinAfter(twin, "load",
                         CallLoad(twin.memK, twin.dbK, ids, env, accessToken),
                         CallLoad(EmptyMap, twin.dbE, ids, env, accessToken),
                         CleanEnv(ids, env))
  /\ UNCHANGED <<accessToken, dbState, db, memoryCache, apiCallCount, cacheHitCount, lw, prev, weekly, calc, walk, rf, wid, boot, eng, cl>>

(***************************************************************************)
(* Specifications                                                          *)
(***************************************************************************)
\* the cache used by the notes viewer: loadActivitiesWithPrivateNotes calls
Next ==
  \/ DbInitDone
  \/ Reload
  \/ \E ids \in IdLists : LwStart(ids)
  \/ LwCheck
  \/ LwRead
  \/ LwFetch
  \/ LwStore
  \/ LwDone

Spec == Init /\ [][Next]_vars

\* the weekly mileage calculator on top of the cache
NextCalc ==
  \/ DbInitDone
  \/ Reload
  \/ LwCheck
  \/ LwRead
  \/ LwFetch
  \/ LwStore
  \/ CalcStart
  \/ CalcWeek
  \/ CalcList
  \/ CalcEnriched
  \/ CalcReturn
  \/ CalcDone

SpecCalc == InitWithStore /\ [][NextCalc]_vars

\* the calculator called again while its pass is running
NextBusy ==
  \/ DbInitDone
  \/ Reload
  \/ LwCheck
  \/ LwRead
  \/ LwFetch
  \/ LwStore
  \/ CalcStart
  \/ CalcBusy
  \/ CalcWeek
  \/ CalcList
  \/ CalcEnriched
  \/ CalcReturn
  \/ CalcDone

SpecBusy == Init /\ [][NextBusy]_vars

\* the dates a pass of the calculator walks through
NextWalk ==
  \/ WalkStart
  \/ WalkWeek
  \/ WalkReturn
  \/ WalkDone

SpecWalk == Init /\ [][NextWalk]_vars

\* the notes viewer refreshing its list
NextRefresh ==
  \/ DbInitDone
  \/ Reload
  \/ RfStart
  \/ RfLoadCache
  \/ RfProbe
  \/ RfList
  \/ LwCheck
  \/ LwRead
  \/ LwFetch
  \/ LwStore
  \/ RfMerged
  \/ RfDone

SpecRefresh == InitWithStore /\ [][NextRefresh]_vars

\* the week ids of two dates
NextWeekId == WeekIds

SpecWeekId == InitWeekId /\ [][NextWeekId]_vars

\* operations issued on one database instance while it opens
NextBoot ==
  \/ DbInitDone
  \/ \E i \in 1..MaxOps : OpCall(i)
  \/ \E i \in 1..MaxOps : OpResume(i)
  \/ \E i \in 1..MaxOps : OpComplete(i)

SpecBoot == Init /\ [][NextBoot]_vars

\* getActivity, getActivities and handleActivitySelect, with clearAll and
\* cleanup at any await
NextEngine ==
  \/ DbInitDone
  \/ \E n \in Ids : GaStart(n)
  \/ GaDb
  \/ GaApi
  \/ GaStore
  \/ \E ids \in IdLists : GsStart(ids)
  \/ GsDb
  \/ \E id \in eng.pending : GsResponse(id)
  \/ \E id \in eng.storing : GsStored(id)
  \/ GsReturn
  \/ \E n \in Ids : SelStart(n)
  \/ SelDb
  \/ SelApi
  \/ SelStore
  \/ EngDone
  \/ ClStart
  \/ ClDb
  \/ Cleanup

\* a session that finds every activity of the catalogue in the store;
\* cleanup and clearAll take it from there to every smaller store
InitRace ==
  /\ accessToken \in BOOLEAN
  /\ dbState = "opening"
  /\ db = StoreOf(Ids)
  /\ memoryCache = EmptyMap
  /\ apiCallCount = 0
  /\ cacheHitCount = 0
  /\ lw = IdleLw
  /\ prev = NoPrev
  /\ weekly = EmptyMap
  /\ calc = IdleCalc
  /\ walk = IdleWalk
  /\ rf = IdleRf
  /\ wid = IdleWid
  /\ boot = IdleBoot
  /\ eng = IdleEng
  /\ cl = IdleCl
  /\ twin = IdleTwin

\* loadActivitiesWithPrivateNotes(summaries) on a cache that clearAll and
\* cleanup are used on as well
RaceStart(ids) ==
  /\ lw.pc = "idle"
  /\ ~cl.loaded
  /\ Len(ids) <= MaxBatch
  /\ apiCallCount + Len(ids) <= MaxApiCalls
  /\ lw' = LwBegin(SummariesOf(ids), "ui")
  /\ cl' = [cl EXCEPT !.loaded = TRUE]
  /\ UNCHANGED <<accessToken, dbState, db, memoryCache, apiCallCount, cacheHitCount, prev, weekly, calc, walk, rf, wid, boot, eng, twin>>

\* clearAll() called while loadActivitiesWithPrivateNotes is in flight
RaceClear ==
  /\ lw.pc \in {"check", "read", "fetch", "store"}
  /\ ClStart

\* cleanup() called while loadActivitiesWithPrivateNotes is in flight
RaceCleanup ==
  /\ lw.pc \in {"check", "read", "fetch", "store"}
  /\ Cleanup

\* the caller of loadActivitiesWithPrivateNotes has received the result
RaceDone ==
  /\ lw.pc = "done"
  /\ lw.caller = "ui"
  /\ lw' = IdleLw
  /\ UNCHANGED <<accessToken, dbState, db, memoryCache, apiCallCount, cacheHitCount, prev, weekly, calc, walk, rf, wid, boot, eng, cl, twin>>

\* loadActivitiesWithPrivateNotes, with clearAll and cleanup at any await
NextRace ==
  \/ DbInitDone
  \/ \E ids \in IdLists : RaceStart(ids)
  \/ LwCheck
  \/ LwRead
  \/ LwFetch
  \/ LwStore
  \/ RaceDone
  \/ RaceClear
  \/ ClDb
  \/ RaceCleanup

SpecEngine == InitWithStore /\ [][NextEngine]_vars

SpecRace == InitRace /\ [][NextRace]_vars

\* the same calls given to a session that keeps its memory cache and to one
\* that does not
NextTwin ==
  \/ \E n \in Ids : TwinGetActivity(n)
  \/ \E ids \in IdLists : TwinGetActivities(ids)
  \/ \E ids \in IdLists : TwinLoad(ids)

SpecTwin == InitTwin /\ [][NextTwin]_vars

(***************************************************************************)
(* Properties                                                              *)
(***************************************************************************)
\* the ids requested from the detail endpoint by the running invocation
RequestedIds(l) == [i \in DOMAIN l.calls |-> l.calls[i][1]]

\* some remote call in the log had this outcome
HasOutcome(calls, outcome) == \E i \in DOMAIN calls : calls[i][2] = outcome

\* the input ids that had no record in the store when the invocation began
AbsentAtStart(l) ==
  SeqFilter(ActivityIdsOf(l.summaries), {id \in SeqRange(ActivityIdsOf(l.summaries)) : id \notin l.store0})

\* C1: a finished loadActivitiesWithPrivateNotes call on a non-empty list
\* returns exactly one record per input summary, same ids, same order,
\* whichever detail fetches failed and with or without a token.
C1_Completeness ==
  (lw.pc = "done" /\ lw.summaries # <<>>) =>
     ActivityIdsOf(lw.result) = ActivityIdsOf(lw.summaries)

C1_Witness ==
  /\ lw.pc = "done"
  /\ Len(lw.summaries) = 3
  /\ HasOutcome(lw.calls, "ok")
  /\ HasOutcome(lw.calls, "error")
  /\ lw.result[1].fidelity # lw.result[2].fidelity

\* C2: with a token and a working store, one call requests detail exactly
\* once for each input id absent from the store and for no id present in it.
C2_ExactDetailCalls ==
  (lw.pc = "done" /\ accessToken /\ lw.summaries # <<>> /\ ~lw.dbFailed) =>
     RequestedIds(lw) = AbsentAtStart(lw)

\* C3: a second call with the same summaries, right after a first call that
\* fetched and stored everything, returns the same list and makes no remote
\* call (apiCallCount is what it was when the second call began).
C3_Idempotent ==
  (lw.pc = "done" /\ prev.valid /\ prev.summaries = lw.summaries /\ ~lw.dbFailed) =>
     /\ lw.result = prev.result
     /\ apiCallCount = lw.count0

\* C4: without a token a call makes no remote call, returns the input
\* Summary record for every id that has no record in the store, and writes
\* neither the store nor the memory cache for those ids.
C4_NoTokenNoCalls ==
  (lw.pc = "done" /\ ~accessToken) =>
     /\ lw.calls = <<>>
     /\ apiCallCount = lw.count0
     /\ Len(lw.result) = Len(lw.summaries)
     /\ \A i \in DOMAIN lw.summaries :
          lw.summaries[i].id \notin lw.store0 =>
             /\ lw.result[i] = lw.summaries[i]
             /\ lw.summaries[i].id \notin DOMAIN db
             /\ String(lw.summaries[i].id) \notin DOMAIN memoryCache

C4_Witness ==
  /\ lw.pc = "done"
  /\ ~accessToken
  /\ Len(lw.summaries) = 3
  /\ lw.store0 # {}

\* C5: within one call, after a detail request answered with a rate limit
\* no further remote call is issued: a rate-limited request is the last one.
C5_StopAfterRateLimit ==
  \A i \in DOMAIN lw.calls : lw.calls[i][2] = "rate" => i = Len(lw.calls)

\* C6: in a finished pass a rate-limited remote call (list or detail) is the
\* last remote call of the pass, rateLimitReached is set, and every week
\* counted as processed has its aggregate in the weekly store.
C6_RateLimitShortCircuit ==
  calc.pc = "done" =>
     \A i \in DOMAIN calc.calls :
        calc.calls[i][2] = "rate" =>
           /\ i = Len(calc.calls)
           /\ calc.calculationStats.rateLimitReached
           /\ calc.processed \subseteq DOMAIN weekly

C8_RateLimitIsSoftStop ==
  /\ (lw.pc = "done" /\ HasOutcome(lw.calls, "rate")) => lw.outcome = "resolved"
  /\ (calc.pc = "done" /\ HasOutcome(calc.calls, "rate")) =>
        (calc.outcome = "resolved" /\ calc.calculationStats.rateLimitReached)

\* C9: an Unauthorized (401) answer to a remote call makes the operation
\* fail towards its caller instead of being absorbed into a fallback.
C9_UnauthorizedSurfaced ==
  /\ (lw.pc = "done" /\ HasOutcome(lw.calls, "unauth")) => lw.outcome = "rejected"
  /\ (calc.pc = "done" /\ HasOutcome(calc.calls, "unauth")) => calc.outcome = "rejected"

\* C10: when a store operation failed during a call (the store could not be
\* opened, or a read or a write failed) the call still resolves with one
\* record per input id and, with a token, requests detail for every input id.
C10_StoreFailureTolerated ==
  (lw.pc = "done" /\ lw.dbFailed /\ lw.summaries # <<>>) =>
     /\ lw.outcome = "resolved"
     /\ ActivityIdsOf(lw.result) = ActivityIdsOf(lw.summaries)
     /\ accessToken => RequestedIds(lw) = ActivityIdsOf(lw.summaries)

C10_Witness ==
  /\ lw.pc = "done"
  /\ lw.dbFailed
  /\ dbState = "failed"
  /\ accessToken
  /\ Len(lw.summaries) >= 2
  /\ lw.store0 # {}

\* a step of the running pass issues a remote call on behalf of week w:
\* the list call of fetchCompleteWeekData or a detail call of the nested load
RemoteCallForWeek(w) ==
  /\ calc.currentWeek = w
  /\ \/ calc.pc = "list" /\ calc'.calls # calc.calls
     \/ calc.pc = "enrich" /\ lw.caller = "calc" /\ apiCallCount' # apiCallCount

\* C11: once the aggregate of a week is stored with isComplete = TRUE, no
\* later step (of this pass, of a later pass, after a reload, after a pass
\* stopped by a rate limit) issues a remote call for that week, and the
\* stored aggregate of that week stays what it is.
C11_CacheMonotonicity ==
  [][\A w \in DOMAIN weekly :
       weekly[w].isComplete =>
          /\ ~RemoteCallForWeek(w)
          /\ w \in DOMAIN weekly'
          /\ weekly'[w] = weekly[w]]_vars

\* a pass has just skipped week 1, whose aggregate (no runs) was stored by
\* an earlier pass: this pass made no remote call and stored nothing
C11_Witness ==
  /\ calc.pc = "loop"
  /\ calc.visited = <<1>>
  /\ calc.calls = <<>>
  /\ calc.calculationStats.cacheHits = 1
  /\ calc.calculationStats.apiCallsMade = 0
  /\ calc.calculationStats.weeksProcessed = 1
  /\ 1 \in DOMAIN weekly
  /\ weekly[1].isComplete
  /\ weekly[1].runCount = 0

\* C12: every aggregate in the weekly store has isComplete = TRUE, and a
\* step that writes the weekly store writes only the week being processed,
\* which had no complete aggregate before: isComplete never goes back.
C12_IsCompleteNeverReverts ==
  [][/\ \A w \in DOMAIN weekly' : weekly'[w].isComplete
     /\ weekly' # weekly =>
          /\ ~WeekAlreadyComplete(weekly, calc.currentWeek)
          /\ DOMAIN weekly' = DOMAIN weekly \cup {calc.currentWeek}
          /\ \A w \in DOMAIN weekly : weekly[w].isComplete => weekly'[w].isComplete]_vars

\* two passes have written the weekly store: week 1 by an earlier pass,
\* week 2 by the running one
C12_Witness ==
  /\ calc.pc = "loop"
  /\ calc.visited = <<1, 2>>
  /\ calc.calculationStats.cacheHits >= 1
  /\ DOMAIN weekly = {1, 2}
  /\ weekly[1].isComplete
  /\ weekly[2].isComplete
  /\ weekly[1].runCount > 0

\* the coverage heuristic as the specification words it: over all cached
\* activities whose start date falls in the week
CoverageOverActivities(store, week) ==
  LET inWeek == {a \in DbGetAllActivities(store) : a.week = week}
  IN  IF WeekEndedOverSevenDaysAgo(week) THEN inWeek # {}
      ELSE Cardinality({a.day : a \in inWeek}) >= 2

\* the step in which the pass examines its current week (processWeek up to
\* the decision between cached data and the list call)
ExaminesWeek == calc.pc = "loop" /\ calc'.visited # calc.visited

\* C13: when a pass with a token examines a week that has no complete
\* aggregate, and its store reads work, it goes on without a remote call
\* exactly when the coverage heuristic holds of the cached activities of the
\* week; otherwise it issues the list call for that week.
C13_CoverageHeuristic ==
  [][(ExaminesWeek /\ accessToken /\ ~calc'.dbFailed
        /\ ~WeekAlreadyComplete(weekly, calc.currentWeek)) =>
       (calc'.pc # "list" <=> CoverageOverActivities(db, calc.currentWeek))]_vars

\* the sum of f over the activities numbered in S, each counted once
RECURSIVE SumOver(_, _)
SumOver(S, f) ==
  IF S = {} THEN 0
  ELSE LET n == CHOOSE x \in S : TRUE IN f[n] + SumOver(S \ {n}, f)

\* the activity numbers of the records of a list, as a set
NumbersOf(activities) == {activities[i].id[2] : i \in DOMAIN activities}

\* the activities of week w known to the pass when it stores the aggregate:
\* the cached ones it read, and the ones the list call of the week returned
KnownOfWeek(w) ==
  IF calc.pc = "loop" THEN {a.id[2] : a \in {b \in DbGetAllActivities(db) : b.week = w}}
  ELSE NumbersOf(calc.cachedRuns) \cup
       (IF calc.pc = "enrich" THEN {n \in Ids : RemoteWeek(n) = w} ELSE {})

\* C14: an aggregate stored by a pass has runCount, totalDistance, totalTime
\* and totalElevation equal to the count and the sums over the known
\* activities of its week that are runs (type or sport_type "Run"), each
\* activity counted once; other activities contribute nothing.
C14_TotalsOverRuns ==
  [][weekly' # weekly =>
       LET w    == calc.currentWeek
           agg  == weekly'[w]
           runs == {n \in KnownOfWeek(w) : RemoteType(n) = "Run" \/ RemoteSportType(n) = "Run"}
       IN  /\ agg.weekId = w
           /\ agg.runCount = Cardinality(runs)
           /\ agg.totalDistance = SumOver(runs, [n \in Ids |-> RemoteDistance(n)])
           /\ agg.totalTime =
                SumOver(runs, [n \in Ids |-> IF RemoteMovingTime(n) # 0 THEN RemoteMovingTime(n)
                                             ELSE RemoteElapsedTime(n)])
           /\ agg.totalElevation = SumOver(runs, [n \in Ids |-> RemoteElevation(n)])
           /\ {agg.activities[i][2] : i \in DOMAIN agg.activities} = runs]_vars

\* last week's aggregate combines the cached run 1 with run 2, which the
\* list call of the week delivered, while the cached ride 3 is in no total
C14_Witness ==
  /\ calc.pc = "loop"
  /\ calc.visited = <<1>>
  /\ calc.calls # <<>>
  /\ calc.calls[1] = <<"list", "ok">>
  /\ 1 \in DOMAIN weekly
  /\ weekly[1].runCount = 2
  /\ weekly[1].totalDistance = 3000
  /\ NumId(3) \in DOMAIN db
  /\ calc.calculationStats.apiCallsMade = 1

\* the Monday of the week that contains the day d
MondayOf(d) == CHOOSE m \in (d - 6)..d : m % 7 = 0

\* C15: a pass visits the Monday-to-Sunday weeks before the current one in
\* order, one week back at each turn, beginning with the week just before
\* the week that contains today; it visits no week twice, visits and stores
\* nothing of the current week, and visits at most maxWeeksBack weeks.
C15_WeekWalk ==
  walk.pc # "idle" =>
     LET monday == MondayOf(walk.today)
     IN  /\ \A i \in DOMAIN walk.visited :
              walk.visited[i] = <<monday - 7 * i, monday - 7 * i + 6>>
         /\ \A i, j \in DOMAIN walk.visited : i # j => walk.visited[i] # walk.visited[j]
         /\ \A i \in DOMAIN walk.visited : walk.visited[i][2] < walk.today
         /\ \A weekStart \in walk.stored : weekStart + 6 < monday
         /\ Len(walk.visited) <= MaxWeeksBack

\* a pass started on a Sunday has visited the full number of weeks
C15_Witness ==
  /\ walk.pc = "done"
  /\ GetDay(walk.today) = 0
  /\ Len(walk.visited) = MaxWeeksBack
  /\ Cardinality(walk.stored) = MaxWeeksBack

\* the activity numbers the remote holds in a date range
RemoteInRange(dateRange) ==
  {n \in Ids : StartDate(SummaryActivity(n)) >= dateRange[1]
               /\ StartDate(SummaryActivity(n)) <= dateRange[2]}

\* C16: a refresh with an explicit range whose list call returned new ids
\* has requested detail exactly once for each listed id the store did not
\* hold and for no other id, and shows the cached records of the range
\* together with the new records of the range, no id twice, latest first.
C16_RangeRefreshMerges ==
  (rf.pc = "done" /\ rf.dateRange # NoRange /\ rf.readOk /\ rf.newActivities # <<>>) =>
     LET held   == NumbersOf(rf.allCachedActivities)
         listed == RemoteInRange(rf.dateRange)
         shown  == rf.activities
     IN  /\ IsDistinct([i \in DOMAIN rf.details |-> rf.details[i][1]])
         /\ {rf.details[i][1][2] : i \in DOMAIN rf.details} = listed \ held
         /\ IsDistinct(ActivityIdsOf(shown))
         /\ NumbersOf(shown) = (held \cap listed) \cup (listed \ held)
         /\ \A i, j \in DOMAIN shown : i < j => StartDate(shown[i]) >= StartDate(shown[j])

\* one activity of the range was cached, the list delivered it and a new
\* one: two activities shown, one detail request
C16_Witness ==
  /\ rf.pc = "done"
  /\ rf.dateRange = <<-7, -6>>
  /\ rf.readOk
  /\ Len(rf.relevantCachedActivities) = 1
  /\ Len(rf.newActivities) = 1
  /\ Len(rf.details) = 1
  /\ Len(rf.activities) = 2

RefreshOutcomes ==
  LET details == IF rf.pc = "enrich" THEN lw.calls ELSE rf.details
  IN  [i \in DOMAIN rf.calls |-> rf.calls[i].outcome] \o [i \in DOMAIN details |-> details[i][2]]

\* C19: in a refresh a failed remote call (probe, list or detail) is the
\* last remote call of the invocation, and the invocation then ends with
\* the loading state cleared and the cached activities of the effective
\* range displayed.
C19_FailureGoesToDone ==
  /\ \A i \in DOMAIN RefreshOutcomes : RefreshOutcomes[i] # "ok" => i = Len(RefreshOutcomes)
  /\ (rf.pc = "done" /\ \E i \in DOMAIN RefreshOutcomes : RefreshOutcomes[i] # "ok") =>
        /\ ~rf.isLoading
        /\ rf.relevantCachedActivities # <<>> =>
              NumbersOf(rf.activities) = NumbersOf(rf.relevantCachedActivities)

\* C20: for every record the store was given under its id as the remote
\* delivers it, getActivity(id) finds a record; that record equals the
\* input in every field but has_private_note and cached_at, and its
\* has_private_note is the truth value of the input's private_note (false
\* for an absent or empty note).
C20_RoundTrip ==
  \A k \in DOMAIN db :
     LET input == DetailActivity(k[2])
     IN  /\ DbHasActivity(db, input.id)
         /\ LET got == DbGetActivity(db, input.id)
            IN  /\ [got EXCEPT !.has_private_note = input.has_private_note,
                               !.cached_at = input.cached_at] = input
                /\ got.has_private_note = (IF Truthy(input.private_note) THEN "true" ELSE "false")

\* the outcome of the latest list call in a log of <<kind, outcome>> pairs
LastListOutcome(calls) ==
  LET lists == {i \in DOMAIN calls : calls[i][1] = "list"}
  IN  IF lists = {} THEN "none" ELSE calls[CHOOSE i \in lists : \A j \in lists : j <= i][2]

\* C27: with a token, an aggregate is written with isComplete = TRUE only when, for its
\* week, the coverage heuristic held on the cached runs or the list call of
\* the week returned successfully; after a list call that failed with an
\* error other than a rate limit no complete aggregate is written.
C27_CompleteOnlyWithCoverage ==
  [][\A w \in DOMAIN weekly' :
        (accessToken /\ (w \notin DOMAIN weekly \/ weekly'[w] # weekly[w]) /\ weekly'[w].isComplete) =>
           \/ /\ calc.pc = "loop"
              /\ HasCompleteWeekCoverage(CachedRunsForWeek(db, w, TRUE), w)
           \/ /\ calc.pc \in {"list", "enrich"}
              /\ LastListOutcome(calc'.calls) = "ok"]_vars

\* C28: two dates get the same week id exactly when they lie in the same
\* Monday-Sunday week, also for weeks that straddle a year boundary.
C28_WeekIdUnique ==
  wid.pc = "done" => (wid.idA = wid.idB <=> GetWeekStart(wid.a) = GetWeekStart(wid.b))

\* C30: a calculateWeeklyMileage call made while a pass is running changes
\* nothing of the pass (no week, no remote call, statistics kept), the pass
\* is the only loop, and isCalculating is false whenever no pass is running.
C30_SingleLoop ==
  /\ [](calc.isCalculating <=> calc.pc \in {"loop", "list", "enrich"})
  /\ [][calc'.busyCalls = calc.busyCalls + 1 =>
          /\ calc' = [calc EXCEPT !.busyCalls = calc.busyCalls + 1]
          /\ UNCHANGED <<apiCallCount, db, weekly, lw>>]_vars

\* a pass that was called again while running has ended by rate limit
C30_Witness ==
  /\ calc.pc = "done"
  /\ calc.busyCalls = 1
  /\ calc.calculationStats.rateLimitReached
  /\ calc.calculationStats.weeksProcessed = 1
  /\ ~calc.isCalculating

\* C26: one database instance makes exactly one open request, however many
\* operations are called before it has settled; the operations called before
\* wait for that one initialization, and each goes on when it succeeded and
\* fails when it failed.
C26_SingleInitialization ==
  /\ [](boot.opens = 1)
  /\ [](\A i \in 1..MaxOps :
          /\ boot.ops[i] \in {"running", "resolved"} => dbState = "open"
          /\ boot.ops[i] = "rejected" => dbState = "failed")
  /\ [][\A i \in 1..MaxOps :
          (boot.ops[i] = "waiting" /\ boot'.ops[i] # "waiting") =>
             /\ dbState # "opening"
             /\ boot'.ops[i] = (IF dbState = "open" THEN "running" ELSE "rejected")]_vars

\* several operations were called before the database was open, and all of
\* them have completed on the one initialization
C26_Witness ==
  /\ dbState = "open"
  /\ boot.opens = 1
  /\ Cardinality(boot.waited) >= 2
  /\ \A i \in boot.waited : boot.ops[i] = "resolved"

C23_SessionCacheFirst ==
  [][ /\ (lw.pc = "check" /\ lw'.pc = "read") =>
           \A id \in SeqRange(ActivityIdsOf(lw.summaries)) : String(id) \notin DOMAIN memoryCache
      /\ Len(lw'.calls) = Len(lw.calls) + 1 =>
           String(lw'.calls[Len(lw'.calls)][1]) \notin DOMAIN memoryCache
      /\ \A e \in eng'.log \ eng.log :
           eng'.op \in {"getActivity", "getActivities"} => String(e[2]) \notin DOMAIN memoryCache ]_vars

\* C24: when getActivity, getActivities or an activity selection has
\* returned and no clearAll was called meanwhile, the memory cache holds a
\* record for every id whose record the call obtained from the store or
\* from the remote
C24_ObtainedIsInSessionCache ==
  (eng.pc = "done" /\ ~eng.cleared) =>
      \A id \in eng.obtained : String(id) \in DOMAIN memoryCache


C25_SessionCacheTransparent == twin.clean => twin.resK = twin.resE

====
